---- MODULE Spec2Model ----
(***************************************************************************)
(* Verification model of AudioAnalyzerBridge: the DSP core                 *)
(* (FFT_Processor.cpp, BPM_Detector.cpp), the loader                       *)
(* (LoadAudioFunction.cpp) and the exported functions                      *)
(* (AudioAnalyzerBridge.cpp).                                              *)
(*                                                                         *)
(* Every routine of the core is a function of its arguments, so each one   *)
(* is an operator computed the way the source computes it, and each has a  *)
(* specification whose single call action draws the arguments from         *)
(* bounded sets and records the arguments and the result:                  *)
(*   SpecFFT      FFT_Processor::FFT / IFFT                                *)
(*   SpecStretch  FFT_Processor::timeStretch                               *)
(*   SpecTempo    BPM_Detector::estimateTempo                              *)
(*   SpecOnsets   BPM_Detector::detectOnsets                               *)
(*   SpecBeats    BPM_Detector::findBeats                                  *)
(*   SpecSpectrogram  ProcessSpectrogram                                   *)
(* The exported functions of AudioAnalyzerBridge.cpp that use the engines  *)
(* and the session variables are the actions of SpecBridge, a state        *)
(* machine over the globals of the bridge (SpecOverwrite: the tempo        *)
(* changes when the caller may save over an input file); SpecVocoder       *)
(* interleaves the frames of concurrent timeStretch invocations.           *)
(*                                                                         *)
(* Arrays are functions over 0 .. n-1, as in the source.                   *)
(***************************************************************************)
EXTENDS Integers, Sequences, FiniteSets, TLC

VARIABLES
    fftOp, fftIn, fftOut,          \* last transform call: operation, argument, result
    tsIn, tsFactor, tsDsp, tsOut,  \* last timeStretch call
    etBeats, etRate, etHop, etPick, etOut,   \* last estimateTempo call
    doLen, doFlux, doPick, doOut,  \* last detectOnsets call
    fbEnv, fbFactor, fbOut,        \* last findBeats call
    g_bpmDetector, g_loadAudio, g_fftProcessor,   \* the engines exist (pointer not null)
    g_lastDetectedBeats, g_lastBPM,               \* result of the last preview analysis
    g_originalFilePath, g_originalLength,         \* the track being stretched
    g_originalBPM, g_currentBPM, g_cumulativeStretchFactor,
    initialized,                   \* InitializeAudioAnalyzerBridge ran, and no cleanup since
    crashed,                       \* the process was ended by a memory fault
    brCall,                        \* last call of an exported function
    disk,                          \* the audio files as the process finds them
    spData, spWidth, spHeight, spRangeDb, spGamma, spOut,  \* last ProcessSpectrogram call
    pvThread, pvTrack              \* timeStretch invocations of the threads, tracking vectors

fftVars == <<fftOp, fftIn, fftOut>>
tsVars == <<tsIn, tsFactor, tsDsp, tsOut>>
etVars == <<etBeats, etRate, etHop, etPick, etOut>>
doVars == <<doLen, doFlux, doPick, doOut>>
fbVars == <<fbEnv, fbFactor, fbOut>>
engineVars == <<g_bpmDetector, g_loadAudio, g_fftProcessor>>
sessionVars ==
    <<g_lastDetectedBeats, g_lastBPM, g_originalFilePath, g_originalLength,
      g_originalBPM, g_currentBPM, g_cumulativeStretchFactor>>
brVars == <<engineVars, sessionVars, initialized, crashed, brCall, disk>>
spVars == <<spData, spWidth, spHeight, spRangeDb, spGamma, spOut>>
pvVars == <<pvThread, pvTrack>>
vars == <<fftVars, tsVars, etVars, doVars, fbVars, brVars, spVars, pvVars>>

(***************************************************************************)
(* Generic helpers                                                         *)
(***************************************************************************)
\* the empty array
Empty == [i \in {} |-> 0]

\* number of elements of an array (vector::size)
Size(a) == Cardinality(DOMAIN a)

Abs(n) == IF n < 0 THEN -n ELSE n

(***************************************************************************)
(* Transform engine: FFT_Processor::FFT and FFT_Processor::IFFT            *)
(*                                                                         *)
(* A complex number is [re, im].  Its parts are exact fixed-point numbers  *)
(* counted in units of 1/ExactLen, so that the 1/N scaling of IFFT is      *)
(* exact for the lengths whose twiddle factors are exact (1, 2 and 4:      *)
(* the twiddles are 1 and -i).  Rounding of binary32 is not modelled here. *)
(***************************************************************************)
\* the largest radix-2 length whose twiddle factors are Gaussian integers
ExactLen == 2 * 2

\* longest sequence handed to FFT/IFFT
MaxFFTLen == 5

Cx(a, b) == [re |-> a, im |-> b]

CAdd(a, b) == Cx(a.re + b.re, a.im + b.im)

CSub(a, b) == Cx(a.re - b.re, a.im - b.im)

\* product with a twiddle factor, which is kept as a plain Gaussian integer
CMulTw(a, t) == Cx(a.re * t.re - a.im * t.im, a.re * t.im + a.im * t.re)

\* std::conj
Conj(a) == Cx(a.re, -a.im)

RECURSIVE BitAnd(_, _)
\* a & b on non-negative integers
BitAnd(a, b) ==
    IF a = 0 \/ b = 0 THEN 0
    ELSE (a % 2) * (b % 2) + 2 * BitAnd(a \div 2, b \div 2)

\* the length test of FFT and IFFT: (N & (N - 1)) != 0
NotPowerOfTwo(N) == BitAnd(N, N - 1) # 0

\* twiddles[i] = (cos(-2 pi i / N), sin(-2 pi i / N)), for the angles 0 and -pi/2
Twiddle(i, N) ==
    CASE i = 0 -> Cx(1, 0)
      [] 4 * i = N -> Cx(0, -1)

RECURSIVE ReduceJ(_, _)
\* while (j >= bit) { j -= bit; bit >>= 1; }
ReduceJ(j, bit) ==
    IF j >= bit /\ bit > 0 THEN ReduceJ(j - bit, bit \div 2)
    ELSE [j |-> j, bit |-> bit]

Swap(x, i, j) == [x EXCEPT ![i] = x[j], ![j] = x[i]]

RECURSIVE BitReversal(_, _, _, _)
\* the bit-reversal permutation loop, from index i with the running j
BitReversal(x, i, j, N) ==
    IF i >= N THEN x
    ELSE LET r == ReduceJ(j, N \div 2)
             j2 == r.j + r.bit
         IN BitReversal(IF i < j2 THEN Swap(x, i, j2) ELSE x, i + 1, j2, N)

\* one butterfly of a stage: indices i + j and i + j + half_len
Butterfly(x, i, j, half, step, N) ==
    LET temp == CMulTw(x[i + j + half], Twiddle(j * step, N))
    IN [x EXCEPT ![i + j + half] = CSub(x[i + j], temp),
                 ![i + j] = CAdd(x[i + j], temp)]

RECURSIVE InnerLoop(_, _, _, _, _, _)
InnerLoop(x, i, j, half, step, N) ==
    IF j >= half THEN x
    ELSE InnerLoop(Butterfly(x, i, j, half, step, N), i, j + 1, half, step, N)

RECURSIVE BlockLoop(_, _, _, _)
BlockLoop(x, i, len, N) ==
    IF i >= N THEN x
    ELSE BlockLoop(InnerLoop(x, i, 0, len \div 2, N \div len, N), i + len, len, N)

RECURSIVE StageLoop(_, _, _)
\* for (len = 2; len <= N; len *= 2)
StageLoop(x, len, N) ==
    IF len > N THEN x
    ELSE StageLoop(BlockLoop(x, 0, len, N), len * 2, N)

\* the transform proper, on a power-of-two length
Transform(x) ==
    LET N == Size(x) IN StageLoop(BitReversal(x, 1, 0, N), 2, N)

RECURSIVE FloorPow2(_)
\* the largest power of two <= n (n >= 1)
FloorPow2(n) == IF n <= 1 THEN 1 ELSE 2 * FloorPow2(n \div 2)

\* a transform that silently cuts the sequence to a power-of-two length
FFT_Truncating(x) ==
    LET N == Size(x) IN
    IF N <= 1 THEN [err |-> "none", x |-> x]
    ELSE [err |-> "none",
          x |-> Transform([i \in 0 .. FloorPow2(N) - 1 |-> x[i]])]

\* FFT_Processor::FFT: the result is the vector after the call and the exception
FFT(x) ==
    LET N == Size(x) IN
    IF N <= 1 THEN [err |-> "none", x |-> x]
    ELSE IF NotPowerOfTwo(N) THEN [err |-> "invalid_argument", x |-> x]
    ELSE [err |-> "none", x |-> Transform(x)]

\* val = std::conj(val) * normFactor, normFactor = 1 / N
ConjNorm(a, N) == Cx(a.re \div N, (-a.im) \div N)

\* an inverse transform that forgets the 1/N normalisation
IFFT_Unscaled(x) ==
    LET N == Size(x) IN
    IF N <= 1 THEN [err |-> "none", x |-> x]
    ELSE IF NotPowerOfTwo(N) THEN [err |-> "invalid_argument", x |-> x]
    ELSE LET f == FFT([i \in DOMAIN x |-> Conj(x[i])])
         IN [err |-> f.err, x |-> [i \in DOMAIN x |-> Conj(f.x[i])]]

\* FFT_Processor::IFFT
IFFT(x) ==
    LET N == Size(x) IN
    IF N <= 1 THEN [err |-> "none", x |-> x]
    ELSE IF NotPowerOfTwo(N) THEN [err |-> "invalid_argument", x |-> x]
    ELSE LET f == FFT([i \in DOMAIN x |-> Conj(x[i])])
         IN IF f.err # "none" THEN f
            ELSE [err |-> "none", x |-> [i \in DOMAIN x |-> ConjNorm(f.x[i], N)]]

\* the sample values of the transform's arguments, in units of 1/ExactLen
ComplexVals ==
    {Cx(0, 0), Cx(ExactLen, 0), Cx(-ExactLen, 0), Cx(0, ExactLen),
     Cx(2 * ExactLen, -ExactLen)}

FFTInputs == UNION {[0 .. n - 1 -> ComplexVals] : n \in 0 .. MaxFFTLen}

\* the caller runs FFT on the sequence
CallFFT ==
    /\ fftOp = "none"
    /\ fftOp' = "FFT"
    /\ fftOut' = FFT(fftIn)
    /\ UNCHANGED fftIn

\* the caller runs IFFT on the sequence
CallIFFT ==
    /\ fftOp = "none"
    /\ fftOp' = "IFFT"
    /\ fftOut' = IFFT(fftIn)
    /\ UNCHANGED fftIn

\* the caller runs FFT on the sequence and, when it did not throw, IFFT on the result
CallRoundTrip ==
    /\ fftOp = "none"
    /\ fftOp' = "RoundTrip"
    /\ fftOut' = LET f == FFT(fftIn) IN IF f.err # "none" THEN f ELSE IFFT(f.x)
    /\ UNCHANGED fftIn

(***************************************************************************)
(* binary32 arithmetic on non-negative numbers                             *)
(*                                                                         *)
(* A binary32 number is [m, e], the value m * 2^e with 2^23 <= m < 2^24,   *)
(* or F32Zero.  Every operation rounds its exact result to nearest, ties   *)
(* to even, as the float operations of the source do (no fused             *)
(* multiply-add, no extended intermediate precision).                      *)
(***************************************************************************)
F32Zero == [m |-> 0, e |-> 0]

\* number of binary digits of n >= 0
BitLength(n) ==
    IF n >= 2 ^ 30 THEN 31
    ELSE CHOOSE k \in 0 .. 30 : n < 2 ^ k /\ (k = 0 \/ n >= 2 ^ (k - 1))

\* the binary32 nearest to M * 2^e, or to a number strictly between M * 2^e and
\* (M + 1) * 2^e when sticky (M then has at least 26 bits)
F32Round(M, e, sticky) ==
    IF M = 0 THEN F32Zero
    ELSE LET bits == BitLength(M) IN
         IF bits <= 24 THEN [m |-> M * 2 ^ (24 - bits), e |-> e - (24 - bits)]
         ELSE LET s == bits - 24
                  q == M \div 2 ^ s
                  r == M % 2 ^ s
                  half == 2 ^ (s - 1)
                  up == r > half \/ (r = half /\ (sticky \/ q % 2 = 1))
              IN IF up /\ q + 1 = 2 ^ 24 THEN [m |-> 2 ^ 23, e |-> e + s + 1]
                 ELSE [m |-> IF up THEN q + 1 ELSE q, e |-> e + s]

\* static_cast<float>(n), n >= 0
F32FromInt(n) == F32Round(n, 0, FALSE)

\* static_cast<int>(a): truncation
F32ToInt(a) ==
    IF a.e >= 0 THEN a.m * 2 ^ a.e
    ELSE IF a.e <= -24 THEN 0
    ELSE a.m \div 2 ^ (-a.e)

\* a < b
F32Lt(a, b) ==
    IF b.m = 0 THEN FALSE
    ELSE IF a.m = 0 THEN TRUE
    ELSE a.e < b.e \/ (a.e = b.e /\ a.m < b.m)

\* a * b: the 48-bit product of the mantissas is built from 12-bit halves
F32Mul(a, b) ==
    IF a.m = 0 \/ b.m = 0 THEN F32Zero
    ELSE LET ah == a.m \div 4096
             al == a.m % 4096
             bh == b.m \div 4096
             bl == b.m % 4096
             mid == ah * bl + al * bh
             low == (mid % 4096) * 4096 + al * bl
             H == ah * bh + mid \div 4096 + low \div 2 ^ 24
             L == low % 2 ^ 24
         IN F32Round(H * 4 + L \div 2 ^ 22, a.e + b.e + 22, L % 2 ^ 22 # 0)

\* 26 more quotient bits of r / d (r < d < 2^24, q the bits before them):
\* [q, r] with the quotient and the remainder, 7, 7, 6 and 6 bits at a time
LongDivision(r, d, q) ==
    LET s1 == r * 128
        s2 == (s1 % d) * 128
        s3 == (s2 % d) * 64
        s4 == (s3 % d) * 64
    IN [q |-> (((q * 128 + s1 \div d) * 128 + s2 \div d) * 64 + s3 \div d) * 64
              + s4 \div d,
        r |-> s4 % d]

\* a / b, b # 0: 26 fraction bits of the quotient of the mantissas, then rounding
F32Div(a, b) ==
    IF a.m = 0 THEN F32Zero
    ELSE LET ld == LongDivision(a.m % b.m, b.m, a.m \div b.m)
         IN F32Round(ld.q, a.e - b.e - 26, ld.r # 0)

\* a + b: the operand of smaller exponent is shifted right behind three guard bits
F32Add(a, b) ==
    IF a.m = 0 THEN b
    ELSE IF b.m = 0 THEN a
    ELSE LET hi == IF a.e >= b.e THEN a ELSE b
             lo == IF a.e >= b.e THEN b ELSE a
             d == hi.e - lo.e
             shifted == IF d >= 27 THEN 0 ELSE (lo.m * 8) \div 2 ^ d
             sticky == IF d >= 27 THEN TRUE ELSE (lo.m * 8) % 2 ^ d # 0
         IN F32Round(hi.m * 8 + shifted, hi.e - 3, sticky)

\* a - b for a >= b
F32Sub(a, b) ==
    IF b.m = 0 THEN a
    ELSE LET d == a.e - b.e
             shifted == IF d >= 27 THEN 0 ELSE (b.m * 8) \div 2 ^ d
             sticky == IF d >= 27 THEN TRUE ELSE (b.m * 8) % 2 ^ d # 0
         IN F32Round(a.m * 8 - shifted - (IF sticky THEN 1 ELSE 0), a.e - 3, sticky)

(***************************************************************************)
(* Time-stretch engine: FFT_Processor::timeStretch                         *)
(*                                                                         *)
(* stretchFactor is a binary32 number, written as an integer count of      *)
(* 2^-24 (FUnit is 1.0); a count is a binary32 number when it has at most  *)
(* 24 significant bits.  The two products input.size() * stretchFactor     *)
(* and analysisHop * stretchFactor are binary32 products, rounded to       *)
(* nearest-even, and are modelled with that rounding.                      *)
(*                                                                         *)
(* A sample is an integer count of 1/100, and NaN is the not-a-number      *)
(* sample, for which every ordered comparison is false.  The spectra of    *)
(* the 4096-point frames are not computed: the value that reaches the      *)
(* final clipping loop at output index i is DspVals[(dsp + i) % K], where  *)
(* dsp is any of 0 .. K-1, so that every value occurs at every index.      *)
(***************************************************************************)
\* longest input buffer handed to timeStretch
MaxInputLen == 12

\* 1.0f in units of 2^-24
FUnit == 2 ^ 24

\* windowSize = 4096
WindowSize == 4096

\* analysisHop = windowSize / 4
AnalysisHop == WindowSize \div 4

\* 0.001f is Milli32 * 2^-33
Milli32 == 8589935

\* the not-a-number sample
NaN == -(2 ^ 30)

\* a < b on samples
FLess(a, b) == a # NaN /\ b # NaN /\ a < b

\* stretchFactor > 0 as a binary32 number
Factor32(f) == F32Round(f, -24, FALSE)

\* input.size() * stretchFactor, a binary32 product
SizeTimesFactor(n, f) == F32Mul(F32FromInt(n), Factor32(f))

\* static_cast<size_t>(input.size() * stretchFactor)
ExpectedLength(n, f) == F32ToInt(SizeTimesFactor(n, f))

\* static_cast<size_t>(input.size() * stretchFactor + windowSize), a binary32 sum
OutputLength(n, f) ==
    F32ToInt(F32Add(SizeTimesFactor(n, f), F32FromInt(WindowSize)))

\* static_cast<unsigned int>(analysisHop * stretchFactor): the product by 1024 is
\* exact, and the ten low bits of f do not reach its integer part
SynthesisHop(f) == (AnalysisHop * (f \div 2 ^ 10)) \div 2 ^ 14

\* std::abs(stretchFactor - 1.0f) < 0.001f
NearUnity(f) == Abs(f - FUnit) <= (Milli32 - 1) \div 2 ^ 9

\* a range check that forgets the upper limit
OutOfRange_NoUpper(f) == 4 * f < FUnit

\* stretchFactor < 0.25f || stretchFactor > 4.0f
OutOfRange(f) == 4 * f < FUnit \/ f > 4 * FUnit

\* the three guard clauses of timeStretch
Guarded(n, f) == (n = 0 \/ f <= 0) \/ NearUnity(f) \/ OutOfRange(f)

RECURSIVE FrameLoop(_, _, _, _, _, _)
\* for (pos = 0; pos + windowSize <= paddedInput.size(); pos += analysisHop):
\* frame k is analysed at pos and, when it fits, overlap-added at outputPos
FrameLoop(pos, outputPos, k, written, padded, o) ==
    IF pos + WindowSize > padded THEN [frames |-> k, written |-> written]
    ELSE FrameLoop(pos + AnalysisHop,
                   outputPos + o.synthesisHop,
                   k + 1,
                   IF outputPos + WindowSize <= o.outputLength
                       THEN written \cup {k} ELSE written,
                   padded, o)

\* a clip whose comparisons let NaN through: std::min(sample, 0.95f)
Clip_SampleFirst(v) ==
    LET lo == IF FLess(95, v) THEN 95 ELSE v
    IN IF FLess(lo, -95) THEN -95 ELSE lo

\* sample = std::max(-0.95f, std::min(0.95f, sample))
Clip(v) ==
    LET lo == IF FLess(v, 95) THEN v ELSE 95
    IN IF FLess(-95, lo) THEN lo ELSE -95

\* the values that can reach the clipping loop
DspVals == <<-300, -96, -95, -50, 0, NaN, 95, 96, 300>>

\* the value reaching the clipping loop at output index i
PreClip(dsp, i) == DspVals[((dsp + i) % Len(DspVals)) + 1]

\* FFT_Processor::timeStretch
TimeStretch(input, f, dsp) ==
    LET n == Size(input) IN
    IF Guarded(n, f)
    THEN [called |-> TRUE, processed |-> FALSE, out |-> input,
          frames |-> 0, written |-> {}, hop |-> 0, outputLength |-> 0]
    ELSE LET outLen == OutputLength(n, f)
             hop == SynthesisHop(f)
             loop == FrameLoop(0, 0, 0, {}, n + 2 * WindowSize,
                               [outputLength |-> outLen, synthesisHop |-> hop])
             expected == ExpectedLength(n, f)
             len == IF expected < outLen THEN expected ELSE outLen
         IN [called |-> TRUE, processed |-> TRUE,
             out |-> [i \in 0 .. len - 1 |-> Clip(PreClip(dsp, i))],
             frames |-> loop.frames, written |-> loop.written,
             hop |-> hop, outputLength |-> outLen]

\* the length of a buffer long enough for a second frame to fit in the output
LongInputLen == 1023

\* the input buffers: ramps base, base + step, ... of up to MaxInputLen samples,
\* and a silent buffer of LongInputLen samples
StretchInputs ==
    {[i \in 0 .. n - 1 |-> base + i * step] :
        n \in 0 .. MaxInputLen, base \in {-200, 0, 50}, step \in {0, 25}}
    \cup {[i \in 0 .. LongInputLen - 1 |-> 0]}

\* the stretch factors, in units of 2^-24: -1, 0, just below 0.25, 0.25, 0.5,
\* the binary32 nearest to 9/11, the four binary32 numbers around the 0.001
\* tolerance of 1.0, 1.0, 1.5, 2.0, 4.0 and the binary32 number after 4.0
StretchFactors ==
    {-FUnit, 0, FUnit \div 4 - 1, FUnit \div 4, FUnit \div 2, 13726813,
     FUnit - 16778, FUnit - 16777, FUnit, FUnit + 16776, FUnit + 16778,
     3 * (FUnit \div 2), 2 * FUnit, 4 * FUnit, 4 * FUnit + 8}

TSNotCalled ==
    [called |-> FALSE, processed |-> FALSE, out |-> Empty,
     frames |-> 0, written |-> {}, hop |-> 0, outputLength |-> 0]

\* the caller runs timeStretch(tsIn, tsFactor)
CallTimeStretch ==
    /\ ~tsOut.called
    /\ tsOut' = TimeStretch(tsIn, tsFactor, tsDsp)
    /\ UNCHANGED <<tsIn, tsFactor, tsDsp>>

(***************************************************************************)
(* The float literals of the tempo estimator                               *)
(***************************************************************************)
\* the float literals of estimateTempo
F32Half == [m |-> 2 ^ 23, e |-> -24]

F32Two == [m |-> 2 ^ 23, e |-> -22]

\* 0.2f
F32Fifth == [m |-> 13421773, e |-> -26]

\* 0.9f, 0.8f
F32NineTenths == [m |-> 15099494, e |-> -24]

F32FourFifths == [m |-> 13421773, e |-> -24]

\* 0.92f
F32Threshold == [m |-> 15435039, e |-> -24]

(***************************************************************************)
(* Tempo estimator: BPM_Detector::estimateTempo                            *)
(*                                                                         *)
(* All arithmetic on times, intervals, BPM values and scores is binary32.  *)
(* The order in which the unordered_map is visited is unspecified, so the  *)
(* winner is any of the buckets of maximal score.                          *)
(***************************************************************************)
\* most beat indices handed to estimateTempo
MaxBeats == 7

\* beatTimes[i] = static_cast<float>(beat * hopSize) / sampleRate
BeatTime(beat, sampleRate, hopSize) ==
    F32Div(F32FromInt(beat * hopSize), F32FromInt(sampleRate))

\* an interval filter that forgets the upper limit
IntervalKept_NoUpper(ibi) == ~F32Lt(ibi, F32Fifth)

\* ibi >= 0.2f && ibi <= 2.0f
IntervalKept(ibi) == ~F32Lt(ibi, F32Fifth) /\ ~F32Lt(F32Two, ibi)

\* intervals: the differences of consecutive beat times that are kept, in order
\* (a beat list that is not ascending gives a negative difference, never kept)
Intervals(beats, sampleRate, hopSize) ==
    LET t == [i \in DOMAIN beats |-> BeatTime(beats[i], sampleRate, hopSize)]
        ascending == {i \in 1 .. Size(beats) - 1 : ~F32Lt(t[i], t[i - 1])}
        ibi == [i \in 1 .. Size(beats) - 1 |->
                   IF i \in ascending THEN F32Sub(t[i], t[i - 1]) ELSE F32Zero]
        Kept(x) == IntervalKept(x)
    IN SelectSeq(ibi, Kept)

\* weight = 0.5f + 0.5f * (static_cast<float>(i) / intervals.size())
IntervalWeight(i, count) ==
    F32Add(F32Half, F32Mul(F32Half, F32Div(F32FromInt(i), F32FromInt(count))))

\* the five votes of an interval: {BPM, vote weight}
Tempos(ibi) ==
    LET primaryBPM == F32Div(F32FromInt(60), ibi) IN
    <<[bpm |-> primaryBPM, w |-> F32FromInt(1)],
      [bpm |-> F32Mul(primaryBPM, F32Two), w |-> F32NineTenths],
      [bpm |-> F32Div(primaryBPM, F32Two), w |-> F32FourFifths],
      [bpm |-> F32Mul(primaryBPM, F32FromInt(3)), w |-> F32Half],
      [bpm |-> F32Div(primaryBPM, F32FromInt(3)), w |-> F32Half]>>

\* tempo.first >= 50.0f && tempo.first <= 220.0f
VoteInBand(bpm) == ~F32Lt(bpm, F32FromInt(50)) /\ ~F32Lt(F32FromInt(220), bpm)

\* bpmKey = static_cast<int>(tempo.first * 2.0f)
BpmKey(bpm) == F32ToInt(F32Mul(bpm, F32Two))

\* tempoHistogram[bpmKey] += score, for a bucket the map holds
AddVote(h, bpmKey, score) ==
    [h EXCEPT ![bpmKey] = F32Add(@, score)]

RECURSIVE TempoVotes(_, _, _, _)
\* the inner loop from vote j (1 .. 5) on: for (const auto &tempo : tempos);
\* operator[] inserts a bucket of 0.0f when the map has none for bpmKey
TempoVotes(h, tempos, weight, j) ==
    IF j > Len(tempos) THEN h
    ELSE LET bpmKey == BpmKey(tempos[j].bpm)
             score == F32Mul(weight, tempos[j].w)
         IN IF ~VoteInBand(tempos[j].bpm) THEN TempoVotes(h, tempos, weight, j + 1)
            ELSE IF bpmKey \in DOMAIN h
            THEN TempoVotes(AddVote(h, bpmKey, score), tempos, weight, j + 1)
            ELSE TempoVotes(AddVote(h @@ (bpmKey :> F32Zero), bpmKey, score),
                            tempos, weight, j + 1)

RECURSIVE VotingLoop(_, _, _)
\* the voting loop from interval i (0-based) on; voted is the histogram after
\* the votes of interval i
VotingLoop(h, intervals, i) ==
    IF i >= Len(intervals) THEN h
    ELSE CHOOSE r \in {VotingLoop(voted, intervals, i + 1) :
                          voted \in {TempoVotes(h, Tempos(intervals[i + 1]),
                                                 IntervalWeight(i, Len(intervals)), 1)}} : TRUE

\* tempoHistogram after the voting loop: bucket key |-> accumulated score
TempoHistogram(intervals) == VotingLoop(Empty, intervals, 0)

\* maxScore after the search loop
MaxScore(h) ==
    IF DOMAIN h = {} THEN F32Zero
    ELSE CHOOSE m \in {h[k] : k \in DOMAIN h} : \A k \in DOMAIN h : ~F32Lt(m, h[k])

\* the values bestBPMKey can have after the search loop
Winners(h) ==
    IF DOMAIN h = {} THEN {0} ELSE {k \in DOMAIN h : h[k] = MaxScore(h)}

\* (bestBPMKey * maxScore + nearbyKey * score) / (maxScore + score), as an int
WeightedAverage(best, maxScore, nearbyKey, score) ==
    F32ToInt(F32Div(F32Add(F32Mul(F32FromInt(best), maxScore),
                           F32Mul(F32FromInt(nearbyKey), score)),
                    F32Add(maxScore, score)))

RECURSIVE Refine(_, _, _, _)
\* the refinement loop from offset on: the first bucket at bestBPMKey + offset
\* whose score exceeds 0.92f * maxScore is averaged with the winner, once
Refine(h, best, maxScore, offset) ==
    IF offset > 3 THEN best
    ELSE LET nearbyKey == best + offset IN
         IF nearbyKey \in DOMAIN h /\ F32Lt(F32Mul(F32Threshold, maxScore), h[nearbyKey])
         THEN WeightedAverage(best, maxScore, nearbyKey, h[nearbyKey])
         ELSE Refine(h, best, maxScore, offset + 1)

\* exactBPM = key / 2.0f, doubled below 60, halved above 180, then std::round
\* (all exact in binary32; std::round rounds halves away from zero)
FoldAndRound(key) ==
    IF key < 120 THEN key
    ELSE IF key > 360 THEN (key + 2) \div 4
    ELSE (key + 1) \div 2

\* the histogram estimateTempo builds for its arguments (empty when it returns early)
HistogramOf(beats, sampleRate, hopSize) ==
    IF Size(beats) < 4 THEN Empty
    ELSE LET intervals == Intervals(beats, sampleRate, hopSize) IN
         IF intervals = << >> THEN Empty ELSE TempoHistogram(intervals)

\* BPM_Detector::estimateTempo, for the winner the search loop found
EstimateTempo(beats, sampleRate, hopSize, pick) ==
    IF Size(beats) < 4
    THEN [called |-> TRUE, bpm |-> 0, histogram |-> Empty, winner |-> 0, refined |-> 0]
    ELSE LET intervals == Intervals(beats, sampleRate, hopSize) IN
         IF intervals = << >>
         THEN [called |-> TRUE, bpm |-> 0, histogram |-> Empty, winner |-> 0, refined |-> 0]
         ELSE LET h == TempoHistogram(intervals)
                  refined == Refine(h, pick, MaxScore(h), -3)
              IN [called |-> TRUE, bpm |-> FoldAndRound(refined),
                  histogram |-> h, winner |-> pick, refined |-> refined]

\* the differences of consecutive beat indices the beat lists are built from
BeatSteps == {5, 12, 21, 22, 43, 44, 75, 90}

\* the index of the first beat
BeatFirsts == {0, 16}

RECURSIVE BeatAt(_, _, _, _)
\* beat i of the list that starts at first and advances by d1 and d2 in turn
BeatAt(first, d1, d2, i) ==
    IF i = 0 THEN first
    ELSE BeatAt(first, d1, d2, i - 1) + (IF i % 2 = 1 THEN d1 ELSE d2)

\* the ascending beat lists of up to MaxBeats indices
BeatLists ==
    {[i \in 0 .. n - 1 |-> BeatAt(first, d1, d2, i)] :
        first \in BeatFirsts, d1 \in BeatSteps, d2 \in BeatSteps, n \in 0 .. MaxBeats}

\* (sampleRate, hopSize) of the calls: the preview and the full-track analysis
RatesAndHops == {<<22050, 512>>, <<44100, 768>>, <<48000, 768>>}

ETNotCalled ==
    [called |-> FALSE, bpm |-> 0, histogram |-> Empty, winner |-> 0, refined |-> 0]

\* the caller runs estimateTempo(etBeats, etRate, etHop)
CallEstimateTempo ==
    /\ ~etOut.called
    /\ \E pick \in Winners(HistogramOf(etBeats, etRate, etHop)) :
           /\ etPick' = pick
           /\ etOut' = EstimateTempo(etBeats, etRate, etHop, pick)
    /\ UNCHANGED <<etBeats, etRate, etHop>>

(***************************************************************************)
(* Onset detector: BPM_Detector::detectOnsets                              *)
(*                                                                         *)
(* The spectra of the 1024- and 2048-sample frames are not computed: the   *)
(* spectral flux of each frame is any of FluxVals, which covers what the   *)
(* flux loop can leave in spectralFlux (a sum of positive terms: zero, a   *)
(* positive number, or +infinity after overflow; never a NaN).  Onset      *)
(* strengths are counted in units of 1 / StrengthUnit.                     *)
(***************************************************************************)
\* most analysis frames of a detectOnsets call
MaxFrames == 13

\* windowSizes[0], hopSize, medianSize
FirstWindowSize == 1024

HopSize == 512

MedianSize == 11

\* +infinity
Inf == 2 ^ 30

StrengthUnit == 4

\* samples.size() - windowSizes[0] is computed in size_t and wraps below 1024 samples
NumFramesWraps(n) == n < FirstWindowSize

\* numFrames = (samples.size() - windowSizes[0]) / hopSize + 1, when nothing wraps
NumFrames(n) == (n - FirstWindowSize) \div HopSize + 1

\* *std::max_element(spectralFlux.begin(), spectralFlux.end())
MaxFlux(spectralFlux) ==
    CHOOSE m \in {spectralFlux[i] : i \in DOMAIN spectralFlux} :
        \A i \in DOMAIN spectralFlux : spectralFlux[i] <= m

\* spectralFlux[i] / maxFlux (inf / inf is NaN, x / inf is 0)
Normalised(flux, maxFlux) ==
    IF maxFlux = Inf THEN (IF flux = Inf THEN NaN ELSE 0)
    ELSE (StrengthUnit * flux) \div maxFlux

\* a + b and a - b of floats that may be NaN
NaNAdd(a, b) == IF a = NaN \/ b = NaN THEN NaN ELSE a + b

NaNSub(a, b) == IF a = NaN \/ b = NaN THEN NaN ELSE a - b

\* if (maxFlux > 0) onsetStrength[i] += spectralFlux[i] / maxFlux
AddNormalised(onsetStrength, spectralFlux) ==
    LET maxFlux == MaxFlux(spectralFlux) IN
    IF maxFlux > 0
    THEN [i \in DOMAIN onsetStrength |->
              NaNAdd(onsetStrength[i], Normalised(spectralFlux[i], maxFlux))]
    ELSE onsetStrength

\* val /= 2.0f
Halve(val) == IF val = NaN THEN NaN ELSE val \div 2

\* onsetStrength before the median filter
OnsetStrength(flux, numFrames) ==
    LET zero == [i \in 0 .. numFrames - 1 |-> 0]
        sum == AddNormalised(AddNormalised(zero, flux[1]), flux[2])
    IN [i \in 0 .. numFrames - 1 |-> Halve(sum[i])]

\* window[j] for frame i: values outside the envelope count as 0
MedianWindow(onsetStrength, i) ==
    [j \in 0 .. MedianSize - 1 |->
        LET idx == i + j - MedianSize \div 2 IN
        IF idx < 0 \/ idx >= Size(onsetStrength) THEN 0 ELSE onsetStrength[idx]]

RECURSIVE Insert(_, _)
\* v put into the ascending sequence sorted
Insert(sorted, v) ==
    IF sorted = << >> THEN <<v>>
    ELSE IF v <= Head(sorted) THEN <<v>> \o sorted
    ELSE <<Head(sorted)>> \o Insert(Tail(sorted), v)

RECURSIVE SortedPrefix(_, _)
\* window[0 .. n-1] in ascending order
SortedPrefix(window, n) ==
    IF n = 0 THEN << >> ELSE Insert(SortedPrefix(window, n - 1), window[n - 1])

\* std::nth_element(...); median = window[medianSize / 2]: the element a sort
\* would put there; with a NaN in the window the comparisons are no ordering
\* and any element of the window can end up there
NthElement(window, pick) ==
    IF \E j \in DOMAIN window : window[j] = NaN THEN window[pick]
    ELSE SortedPrefix(window, MedianSize)[MedianSize \div 2 + 1]

\* a median filter that keeps negative differences
Clamp_None(diff) == diff

\* (diff > 0.0f) ? diff : 0.0f
Clamp(diff) == IF diff # NaN /\ diff > 0 THEN diff ELSE 0

\* the median filter loop
MedianFiltered(onsetStrength, pick) ==
    [i \in DOMAIN onsetStrength |->
        Clamp(NaNSub(onsetStrength[i], NthElement(MedianWindow(onsetStrength, i), pick)))]

\* BPM_Detector::detectOnsets on n samples whose frames have the given spectral
\* flux.  Below 1024 samples numFrames wraps to about 2^55 and the allocation of
\* onsetStrength throws.
DetectOnsets(n, flux, pick) ==
    IF NumFramesWraps(n)
    THEN [called |-> TRUE, err |-> "bad_alloc", onsetStrength |-> Empty, envelope |-> Empty]
    ELSE LET onsetStrength == OnsetStrength(flux, NumFrames(n))
         IN [called |-> TRUE, err |-> "none", onsetStrength |-> onsetStrength,
             envelope |-> MedianFiltered(onsetStrength, pick)]

\* the flux of consecutive frames: silence, isolated onsets, a loud passage with
\* a gap, and a passage whose flux overflows
FluxPatterns ==
    <<<<0, 0, 0, 0, 0, 0, 0, 0, 0, 0, 0, 0, 0>>,
      <<0, 0, 0, 2, 0, 0, 0, 0, 1, 0, 0, 0, 0>>,
      <<2, 2, 2, 2, 2, 2, 1, 2, 2, 2, 2, 2, 0>>,
      <<0, 1, 2, Inf, 1, 0, 0, 0, 2, 0, 0, 1, 0>>>>

FluxShifts == {0, 1, 5}

\* spectralFlux of numFrames frames, read from pattern p starting at shift
FluxFrom(p, shift, numFrames) ==
    [frame \in 0 .. numFrames - 1 |->
        FluxPatterns[p][((frame + shift) % Len(FluxPatterns[p])) + 1]]

\* samples.size() of the calls: too short for one frame, and 1 .. MaxFrames frames
OnsetLengths ==
    {0, FirstWindowSize - 1} \cup
    {FirstWindowSize + k * HopSize + r : k \in 0 .. MaxFrames - 1, r \in {0, HopSize - 1}}

\* the spectral flux of the two window sizes for a buffer of n samples
FluxInputs(n) ==
    LET numFrames == IF NumFramesWraps(n) THEN 0 ELSE NumFrames(n) IN
    {<<FluxFrom(p1, s1, numFrames), FluxFrom(p2, s2, numFrames)>> :
        p1 \in DOMAIN FluxPatterns, p2 \in DOMAIN FluxPatterns,
        s1 \in FluxShifts, s2 \in FluxShifts}

DONotCalled ==
    [called |-> FALSE, err |-> "none", onsetStrength |-> Empty, envelope |-> Empty]

\* the caller runs detectOnsets on the buffer of doLen samples
CallDetectOnsets ==
    /\ ~doOut.called
    /\ \E pick \in 0 .. MedianSize - 1 :
           /\ doPick' = pick
           /\ doOut' = DetectOnsets(doLen, doFlux, pick)
    /\ UNCHANGED <<doLen, doFlux>>

(***************************************************************************)
(* Peak picker: BPM_Detector::findBeats                                    *)
(*                                                                         *)
(* An envelope holds integers v >= 0 that stand for the binary32 nearest   *)
(* to v / EnvUnit, or NaN; the threshold factor is counted in units of     *)
(* 1 / FactorUnit.  The statistics and the threshold are computed in       *)
(* binary32, operation by operation, as the source does.                   *)
(***************************************************************************)
\* longest envelope handed to findBeats
MaxEnvLen == 27

\* windowSize, statsWindow
PeakWindowSize == 9

StatsWindow == 30

EnvUnit == 10

FactorUnit == 10

\* the float onsetFunction[j] of a frame that is no NaN
EnvValue(v) == F32Div(F32FromInt(v), F32FromInt(EnvUnit))

RECURSIVE IntSqrtFrom(_, _, _)
\* the largest r + k * bit + ... whose square is at most n
IntSqrtFrom(n, r, bit) ==
    IF bit = 0 THEN r
    ELSE IF (r + bit) * (r + bit) <= n THEN IntSqrtFrom(n, r + bit, bit \div 2)
    ELSE IntSqrtFrom(n, r, bit \div 2)

RECURSIVE SqrtBits(_, _, _)
\* n more bits of a square root: [q, r] with the root and the remainder
SqrtBits(root, rem, n) ==
    IF n = 0 THEN [q |-> root, r |-> rem]
    ELSE IF 4 * rem >= 4 * root + 1
         THEN SqrtBits(2 * root + 1, 4 * rem - (4 * root + 1), n - 1)
         ELSE SqrtBits(2 * root, 4 * rem, n - 1)

\* std::sqrt(a) for a >= 0, correctly rounded
F32Sqrt(a) ==
    IF a.m = 0 THEN F32Zero
    ELSE LET m == IF a.e % 2 = 0 THEN a.m ELSE 2 * a.m
             e == IF a.e % 2 = 0 THEN a.e ELSE a.e - 1
             r0 == IntSqrtFrom(m, 0, 4096)
             sb == SqrtBits(r0, m - r0 * r0, 14)
         IN F32Round(sb.q, e \div 2 - 14, sb.r # 0)

\* the bounds of the statistics loop for frame i
StatsFirst(i) == IF i > StatsWindow \div 2 THEN i - StatsWindow \div 2 ELSE 0

StatsEnd(i, length) ==
    IF i + StatsWindow \div 2 < length THEN i + StatsWindow \div 2 ELSE length

RECURSIVE StatsLoop(_, _, _, _)
\* the statistics loop over the frames j .. end - 1, entered with the sums st
\* (sum += x; sumSq += x * x; count++): the first half of the frames, then the
\* second half
StatsLoop(onsetFunction, j, end, st) ==
    IF ~(j < end) THEN st
    ELSE IF end - j = 1
    THEN LET x == EnvValue(onsetFunction[j])
         IN [sum |-> F32Add(st.sum, x), sumSq |-> F32Add(st.sumSq, F32Mul(x, x))]
    ELSE LET mid == j + (end - j) \div 2
         IN CHOOSE r \in {StatsLoop(onsetFunction, mid, end, half) :
                             half \in {StatsLoop(onsetFunction, j, mid, st)}} : TRUE

\* !(onsetFunction[i] <= threshold[i]) with
\* threshold[i] = mean + thresholdFactor * std::sqrt(variance).
\* A NaN among the frames of the statistics or a negative variance makes the
\* threshold a NaN, the comparison false and the frame a candidate.
AboveThreshold(onsetFunction, i, factor) ==
    LET first == StatsFirst(i)
        end == StatsEnd(i, Size(onsetFunction))
    IN IF \E j \in first .. end - 1 : onsetFunction[j] = NaN THEN TRUE
       ELSE LET st == StatsLoop(onsetFunction, first, end, [sum |-> F32Zero, sumSq |-> F32Zero])
                count == F32FromInt(end - first)
                mean == F32Div(st.sum, count)
                meanSq == F32Mul(mean, mean)
                sqMean == F32Div(st.sumSq, count)
            IN IF F32Lt(sqMean, meanSq) THEN TRUE
               ELSE LET dev == F32Sqrt(F32Sub(sqMean, meanSq))
                        absFactor == F32Div(F32FromInt(Abs(factor)), F32FromInt(FactorUnit))
                        scaled == F32Mul(absFactor, dev)
                        x == EnvValue(onsetFunction[i])
                    IN IF factor >= 0 THEN F32Lt(F32Add(mean, scaled), x)
                       ELSE IF F32Lt(mean, scaled) THEN TRUE
                       ELSE F32Lt(F32Sub(mean, scaled), x)

\* isPeak: no value within windowSize frames of i is greater
IsPeak(onsetFunction, i) ==
    \A j \in -PeakWindowSize .. PeakWindowSize :
        LET idx == i + j IN
        (j # 0 /\ idx >= 0 /\ idx < Size(onsetFunction)
         /\ onsetFunction[idx] # NaN /\ onsetFunction[i] # NaN)
            => ~(onsetFunction[idx] > onsetFunction[i])

\* a loop that puts each peak in front of the earlier ones
PushBack_Front(peaks, i) == <<i>> \o peaks

\* peaks.push_back(i)
PushBack(peaks, i) == Append(peaks, i)

RECURSIVE PeakLoop(_, _, _, _)
\* the peak loop from frame i on
PeakLoop(onsetFunction, factor, i, peaks) ==
    IF ~(i < Size(onsetFunction) - PeakWindowSize) THEN peaks
    ELSE IF AboveThreshold(onsetFunction, i, factor) /\ IsPeak(onsetFunction, i)
    THEN PeakLoop(onsetFunction, factor, i + 1, PushBack(peaks, i))
    ELSE PeakLoop(onsetFunction, factor, i + 1, peaks)

\* length - windowSize is computed in size_t and wraps below 9 frames
PeakLoopWraps(length) == length < PeakWindowSize

\* BPM_Detector::findBeats.  Below 9 frames the loop bound wraps to about 2^64
\* and the loop reads onsetFunction[9], [10], ... past the end of the vector
\* until a read faults: no list is returned.  outOfBounds holds the index of
\* the first element read outside the envelope.
FindBeats(onsetFunction, factor) ==
    IF PeakLoopWraps(Size(onsetFunction))
    THEN [called |-> TRUE, err |-> "out_of_bounds", peaks |-> << >>,
          outOfBounds |-> {PeakWindowSize}]
    ELSE [called |-> TRUE, err |-> "none",
          peaks |-> PeakLoop(onsetFunction, factor, PeakWindowSize, << >>),
          outOfBounds |-> {}]

EnvLengths == {0, 8, 9, 18, 19, 21, MaxEnvLen}

EnvHeights == {2, 4, NaN}

\* the envelopes: a level floor with up to two raised (or lowered) frames
Envelopes ==
    {[i \in 0 .. n - 1 |-> IF i = p1 THEN h1 ELSE IF i = p2 THEN h2 ELSE floor] :
        n \in EnvLengths, floor \in {0, 1, 3}, p1 \in {9, 10, 50}, p2 \in {11, 17, 50},
        h1 \in EnvHeights, h2 \in EnvHeights}

\* thresholdFactor: the default 1.3f, 0 and -1.0
ThresholdFactors == {13, 0, -10}

FBNotCalled == [called |-> FALSE, err |-> "none", peaks |-> << >>, outOfBounds |-> {}]

\* the caller runs findBeats(fbEnv, fbFactor)
CallFindBeats ==
    /\ ~fbOut.called
    /\ fbOut' = FindBeats(fbEnv, fbFactor)
    /\ UNCHANGED <<fbEnv, fbFactor>>

(***************************************************************************)
(* Exported interface: AudioAnalyzerBridge.cpp                             *)
(*                                                                         *)
(* The three engines are global pointers, modelled by whether they are     *)
(* set.  brCall records the last call of an exported function: its name,   *)
(* its arguments, the value it returned and what it wrote through its      *)
(* output pointers.  A buffer the caller passes in starts with every cell  *)
(* Unwritten; a pointer argument is Null or names a buffer.                *)
(***************************************************************************)
Null == "null"

\* a cell of a caller's buffer that the callee did not write
Unwritten == -1

\* a caller's buffer of n cells before the call
Buffer(n) == [i \in 0 .. n - 1 |-> Unwritten]

NoCall == [op |-> "none", args |-> << >>, ret |-> FALSE, out |-> << >>]

\* InitializeAudioAnalyzerBridge: the three engines are created
InitializeAudioAnalyzerBridge ==
    /\ ~crashed
    /\ g_bpmDetector' = TRUE
    /\ g_loadAudio' = TRUE
    /\ g_fftProcessor' = TRUE
    /\ initialized' = TRUE
    /\ brCall' = [op |-> "InitializeAudioAnalyzerBridge", args |-> << >>,
                  ret |-> TRUE, out |-> << >>]
    /\ UNCHANGED <<sessionVars, crashed, disk>>

\* a cleanup that releases the engines and keeps the session state
CleanupAudioAnalyzer_EnginesOnly ==
    /\ ~crashed
    /\ g_bpmDetector' = FALSE
    /\ g_loadAudio' = FALSE
    /\ g_fftProcessor' = FALSE
    /\ initialized' = FALSE
    /\ brCall' = [op |-> "CleanupAudioAnalyzer", args |-> << >>,
                  ret |-> TRUE, out |-> << >>]
    /\ UNCHANGED <<sessionVars, crashed, disk>>

\* CleanupAudioAnalyzer: engines released, session state reset
CleanupAudioAnalyzer ==
    /\ ~crashed
    /\ g_bpmDetector' = FALSE
    /\ g_loadAudio' = FALSE
    /\ g_fftProcessor' = FALSE
    /\ g_lastDetectedBeats' = Empty
    /\ g_lastBPM' = 0
    /\ g_originalFilePath' = ""
    /\ g_originalLength' = 0
    /\ g_originalBPM' = 0
    /\ g_currentBPM' = 0
    /\ g_cumulativeStretchFactor' = FUnit
    /\ initialized' = FALSE
    /\ brCall' = [op |-> "CleanupAudioAnalyzer", args |-> << >>,
                  ret |-> TRUE, out |-> << >>]
    /\ UNCHANGED <<crashed, disk>>

\* largest window size requested
MaxHannSize == 7

\* the sizes whose window values are exact binary32 numbers (0, 1/4, 1/2, 3/4, 1):
\* the angles 2 * pi * i / (size - 1) are multiples of a twelfth of a turn with
\* a cosine in {1, 1/2, 0, -1/2, -1}; and the sizes 0 and 1
HannSizes == {s \in 0 .. MaxHannSize : s <= 1 \/ 12 % (s - 1) = 0}

\* 2 * cos of t twelfths of a turn
TwoCos(t) ==
    CASE t = 0 -> 2
      [] t \in {2, 10} -> 1
      [] t \in {3, 9} -> 0
      [] t \in {4, 8} -> -1
      [] t = 6 -> -2

\* FFT_Processor::hanningWindow, values in units of 1/4:
\* 0.5f * (1.0f - std::cos(2.0f * M_PI * i / (size - 1))); for size = 1 the
\* quotient is 0 / 0, a NaN, and so is the value
HanningWindow(size) ==
    [i \in 0 .. size - 1 |->
        IF size = 1 THEN NaN
        ELSE 2 - TwoCos(((12 * i) \div (size - 1)) % 12)]

\* GetHanningWindow(size, outWindow)
GetHanningWindow ==
    /\ ~crashed
    /\ \E size \in HannSizes, outWindow \in {Null, "buffer"} :
         brCall' =
            IF ~g_fftProcessor \/ size = 0 \/ outWindow = Null
            THEN [op |-> "GetHanningWindow",
                  args |-> [size |-> size, outWindow |-> outWindow],
                  ret |-> FALSE,
                  out |-> IF outWindow = Null THEN Empty ELSE Buffer(size)]
            ELSE [op |-> "GetHanningWindow",
                  args |-> [size |-> size, outWindow |-> outWindow],
                  ret |-> TRUE,
                  out |-> HanningWindow(size)]
    /\ UNCHANGED <<engineVars, sessionVars, initialized, crashed, disk>>

\* the sample buffers handed to PerformFFTWithMagnitudes
AudioBuffers ==
    {[i \in 0 .. n - 1 |-> base + i * step] :
        n \in 0 .. MaxFFTLen, base \in {0, 3}, step \in {0, 4}}

\* std::abs of a complex number, rounded down to a whole unit
Magnitude(z) ==
    LET n == z.re * z.re + z.im * z.im
    IN CHOOSE r \in 0 .. n : r * r <= n /\ (r + 1) * (r + 1) > n

\* numMagnitudes = length / 2 + 1, without the + 1
NumMagnitudes_Half(length) == length \div 2

\* numMagnitudes = length / 2 + 1
NumMagnitudes(length) == length \div 2 + 1

\* the body of PerformFFTWithMagnitudes after the argument checks; the caller's
\* magnitudes buffer has room for length + 1 values
FFTWithMagnitudes(audioData, length) ==
    LET complexData == FFT([i \in 0 .. length - 1 |-> Cx(audioData[i], 0)])
    IN IF complexData.err # "none"
       THEN [ret |-> FALSE, magnitudes |-> Buffer(length + 1)]
       ELSE [ret |-> TRUE,
             magnitudes |->
                [i \in 0 .. length |->
                    IF i < NumMagnitudes(length)
                    THEN Magnitude(complexData.x[i]) ELSE Unwritten]]

\* PerformFFTWithMagnitudes(audioData, length, magnitudes): samples is what the
\* caller's sample buffer holds, audioData and magnitudes are the two pointers
PerformFFTWithMagnitudes ==
    /\ ~crashed
    /\ \E samples \in AudioBuffers, audioData \in {Null, "buffer"},
          magnitudes \in {Null, "buffer"} :
         LET length == Size(samples)
             args == [samples |-> samples, audioData |-> audioData,
                      length |-> length, magnitudes |-> magnitudes]
             untouched == IF magnitudes = Null THEN Empty ELSE Buffer(length + 1)
         IN brCall' =
              IF ~g_fftProcessor \/ audioData = Null \/ magnitudes = Null \/ length = 0
              THEN [op |-> "PerformFFTWithMagnitudes", args |-> args,
                    ret |-> FALSE, out |-> untouched]
              ELSE IF BitAnd(length, length - 1) # 0
              THEN [op |-> "PerformFFTWithMagnitudes", args |-> args,
                    ret |-> FALSE, out |-> untouched]
              ELSE [op |-> "PerformFFTWithMagnitudes", args |-> args,
                    ret |-> FFTWithMagnitudes(samples, length).ret,
                    out |-> FFTWithMagnitudes(samples, length).magnitudes]
    /\ UNCHANGED <<engineVars, sessionVars, initialized, crashed, disk>>

(***************************************************************************)
(* Exported interface: files and track analysis                            *)
(*                                                                         *)
(* A track on disk is its sample rate, its number of frames and the        *)
(* distance in frames between its clicks (0: silence).  The samples are    *)
(* not modelled: a decoded buffer is its length, its rate and its click    *)
(* distance, and the onset detector and peak picker together report the    *)
(* frame of every click that the peak loop can reach.  Seconds are whole   *)
(* numbers.  disk holds the files that can be opened for reading; a file   *)
(* that is not read-only is replaced when a tempo change is saved to its   *)
(* path.                                                                   *)
(***************************************************************************)
\* the tracks on disk, all read-only; "gone.wav" is not there
Tracks ==
    ("song.wav" :> [rate |-> 44100, frames |-> 264600, click |-> 44032, readOnly |-> TRUE]) @@
    ("quiet.wav" :> [rate |-> 22050, frames |-> 110250, click |-> 0, readOnly |-> TRUE]) @@
    ("blip.wav" :> [rate |-> 44100, frames |-> 3000, click |-> 0, readOnly |-> TRUE]) @@
    ("tick.wav" :> [rate |-> 22050, frames |-> 500, click |-> 0, readOnly |-> TRUE])

\* a disk that holds "tick.wav" alone, which the caller may write to
WritableDisk == "tick.wav" :> [Tracks["tick.wav"] EXCEPT !.readOnly = FALSE]

FileNames == DOMAIN Tracks \cup {"gone.wav"}

\* fileExists
FileExists(path) == path \in DOMAIN disk

\* no file of that name
NoFile == [rate |-> 0, frames |-> 0, click |-> 0, readOnly |-> TRUE]

\* what opening the path finds
File(path) == IF FileExists(path) THEN disk[path] ELSE NoFile

\* TARGET_RATE of loadAudio
TargetRate == 22050

\* maxSeconds of the preview analysis (30.0f)
PreviewSeconds == 30

Failed(err) == [err |-> err, n |-> 0, rate |-> 0, click |-> 0]

\* LoadAudioFunction::decodeToMono on the file t that opening filename finds:
\* the whole file, or its first maxSeconds seconds when maxSeconds > 0; a file
\* that cannot be opened or gives no frame throws
DecodeToMono(t, maxSeconds) ==
    IF t = NoFile THEN Failed("runtime_error")
    ELSE LET maxFrames == IF maxSeconds > 0 THEN t.rate * maxSeconds ELSE t.frames
             framesToRead == IF maxFrames < t.frames THEN maxFrames ELSE t.frames
         IN IF framesToRead = 0 THEN Failed("runtime_error")
            ELSE [err |-> "none", n |-> framesToRead, rate |-> t.rate, click |-> t.click]

\* LoadAudioFunction::loadAudio: decoded, then averaged down by the whole
\* factor originalRate / 22050 when that is above 1
LoadAudio(t, maxSeconds) ==
    LET audio == DecodeToMono(t, maxSeconds)
        factor == audio.rate \div TargetRate
    IN IF audio.err = "none" /\ audio.rate > TargetRate /\ factor > 1
       THEN [err |-> "none", n |-> audio.n \div factor, rate |-> audio.rate \div factor,
             click |-> audio.click \div factor]
       ELSE audio

\* LoadAudioFunction::loadAudioAtOriginalRate
LoadAudioAtOriginalRate(t, length) == DecodeToMono(t, length)

\* the frames of the clicks that findBeats reports for an envelope of
\* numFrames frames: those in [PeakWindowSize, numFrames - PeakWindowSize)
ClickBeats(click, numFrames) ==
    LET gap == click \div HopSize
        count == IF gap = 0 THEN 0
                 ELSE Cardinality({k \in 1 .. numFrames :
                        PeakWindowSize <= k * gap /\ k * gap < numFrames - PeakWindowSize})
    IN [i \in 0 .. count - 1 |-> (i + 1) * gap]

\* detectOnsets, then findBeats, on a decoded buffer
BeatPicking(audio) ==
    IF NumFramesWraps(audio.n) THEN [err |-> "bad_alloc", beats |-> Empty]
    ELSE IF PeakLoopWraps(NumFrames(audio.n)) THEN [err |-> "out_of_bounds", beats |-> Empty]
    ELSE [err |-> "none", beats |-> ClickBeats(audio.click, NumFrames(audio.n))]

\* what reading past the end of the envelope leads to: a memory fault, or an
\* exception when the peak list cannot grow any further
OverrunOutcomes == {"fault", "bad_alloc"}

\* the try block of AnalyzeFileBPM on the file t: the value returned, what is
\* assigned to g_lastDetectedBeats and to g_lastBPM, and whether the process
\* faulted
PreviewOf(t) ==
        LET samples == LoadAudio(t, PreviewSeconds)
            picked == BeatPicking(samples)
            thrown == [ret |-> 0, setBeats |-> FALSE, beats |-> Empty,
                       setBPM |-> FALSE, fault |-> FALSE]
        IN IF samples.err # "none" \/ picked.err = "bad_alloc" THEN {thrown}
           ELSE IF picked.err = "out_of_bounds"
           THEN {[thrown EXCEPT !.fault = (o = "fault")] : o \in OverrunOutcomes}
           ELSE IF picked.beats = Empty
           THEN {[thrown EXCEPT !.setBeats = TRUE]}
           ELSE {[ret |-> EstimateTempo(picked.beats, samples.rate, HopSize, pick).bpm,
                  setBeats |-> TRUE, beats |-> picked.beats, setBPM |-> TRUE,
                  fault |-> FALSE] :
                    pick \in Winners(HistogramOf(picked.beats, samples.rate, HopSize))}

\* the files of Tracks, and no file
OriginalFiles == {Tracks[name] : name \in DOMAIN Tracks} \cup {NoFile}

RECURSIVE PreviewTable(_)
\* PreviewOf as a table over the files in S, each entry computed once
PreviewTable(S) ==
    IF S = {} THEN << >>
    ELSE LET t == CHOOSE x \in S : TRUE
         IN (t :> PreviewOf(t)) @@ PreviewTable(S \ {t})

PreviewOfOriginal == PreviewTable(OriginalFiles)

\* the outcomes of the try block of AnalyzeFileBPM(filename) in the current state
PreviewOutcomes(filename) ==
    IF File(filename) \in OriginalFiles THEN PreviewOfOriginal[File(filename)]
    ELSE PreviewOf(File(filename))

\* AnalyzeFileBPM without the test of the two engine pointers
AnalyzeFileBPMOutcomes_Unguarded(filename) == PreviewOutcomes(filename)

\* the outcomes of AnalyzeFileBPM(filename) in the current state
AnalyzeFileBPMOutcomes(filename) ==
    IF ~g_bpmDetector \/ ~g_loadAudio
    THEN {[ret |-> 0, setBeats |-> FALSE, beats |-> Empty, setBPM |-> FALSE,
           fault |-> FALSE]}
    ELSE PreviewOutcomes(filename)

\* AnalyzeFileBPM(filename)
AnalyzeFileBPM ==
    /\ ~crashed
    /\ \E filename \in FileNames : \E r \in AnalyzeFileBPMOutcomes(filename) :
         /\ g_lastDetectedBeats' = IF r.setBeats THEN r.beats ELSE g_lastDetectedBeats
         /\ g_lastBPM' = IF r.setBPM THEN r.ret ELSE g_lastBPM
         /\ crashed' = r.fault
         /\ brCall' = [op |-> "AnalyzeFileBPM", args |-> [filename |-> filename],
                       ret |-> r.ret, out |-> << >>]
    /\ UNCHANGED <<engineVars, initialized, g_originalFilePath, g_originalLength,
                   g_originalBPM, g_currentBPM, g_cumulativeStretchFactor, disk>>

\* LoadAudioFull(filename, outData, length, sampleRate) with pointers to
\* variables of the caller
LoadAudioFull ==
    /\ ~crashed
    /\ \E filename \in FileNames :
         LET samples == LoadAudioAtOriginalRate(File(filename), 0)
             args == [filename |-> filename]
         IN brCall' =
              IF ~g_loadAudio \/ samples.err # "none"
              THEN [op |-> "LoadAudioFull", args |-> args, ret |-> FALSE,
                    out |-> [length |-> Unwritten, sampleRate |-> Unwritten]]
              ELSE [op |-> "LoadAudioFull", args |-> args, ret |-> TRUE,
                    out |-> [length |-> samples.n, sampleRate |-> samples.rate]]
    /\ UNCHANGED <<engineVars, sessionVars, initialized, crashed, disk>>

\* int *beatPositions of the caller: left alone, set to nullptr, or set to a
\* new array
PositionsUnwritten == [pointer |-> "unwritten", values |-> Empty]

PositionsNull == [pointer |-> Null, values |-> Empty]

PositionsArray(values) == [pointer |-> "array", values |-> values]

\* what the caller's three variables hold after AnalyzeFullTrackBeats
BeatsOut(numBeats, beatPositions, sampleRate) ==
    [numBeats |-> numBeats, beatPositions |-> beatPositions, sampleRate |-> sampleRate]

\* the try block of AnalyzeFullTrackBeats on the file t: the value returned, the
\* caller's variables after the call, and whether the process faulted
FullTrackOf(t) ==
        LET fullSamples == LoadAudioAtOriginalRate(t, 0)
            picked == BeatPicking(fullSamples)
            caught == [ret |-> FALSE, out |-> BeatsOut(0, PositionsNull, Unwritten),
                       fault |-> FALSE]
        IN IF fullSamples.err # "none" \/ picked.err = "bad_alloc" THEN {caught}
           ELSE IF picked.err = "out_of_bounds"
           THEN {caught,
                 [ret |-> FALSE, out |-> BeatsOut(Unwritten, PositionsUnwritten, Unwritten),
                  fault |-> TRUE]}
           ELSE IF picked.beats = Empty
           THEN {[ret |-> TRUE, out |-> BeatsOut(0, PositionsNull, fullSamples.rate),
                  fault |-> FALSE]}
           ELSE {[ret |-> TRUE,
                  out |-> BeatsOut(Size(picked.beats), PositionsArray(picked.beats),
                                  fullSamples.rate),
                  fault |-> FALSE]}

RECURSIVE FullTrackTable(_)
\* FullTrackOf as a table over the files in S
FullTrackTable(S) ==
    IF S = {} THEN << >>
    ELSE LET t == CHOOSE x \in S : TRUE
         IN (t :> FullTrackOf(t)) @@ FullTrackTable(S \ {t})

FullTrackOfOriginal == FullTrackTable(OriginalFiles)

\* the outcomes of the try block of AnalyzeFullTrackBeats(filename) in the
\* current state
FullTrackOutcomes(filename) ==
    IF File(filename) \in OriginalFiles THEN FullTrackOfOriginal[File(filename)]
    ELSE FullTrackOf(File(filename))

\* AnalyzeFullTrackBeats(filename, beatPositions, numBeats, sampleRate): the
\* three pointers are all null or all point to variables of the caller
AnalyzeFullTrackBeats ==
    /\ ~crashed
    /\ \E filename \in FileNames, pointers \in {Null, "valid"} :
         LET args == [filename |-> filename, pointers |-> pointers] IN
         IF ~g_bpmDetector \/ ~g_loadAudio \/ pointers = Null
         THEN /\ brCall' = [op |-> "AnalyzeFullTrackBeats", args |-> args, ret |-> FALSE,
                            out |-> BeatsOut(Unwritten, PositionsUnwritten, Unwritten)]
              /\ UNCHANGED crashed
         ELSE \E r \in FullTrackOutcomes(filename) :
                /\ brCall' = [op |-> "AnalyzeFullTrackBeats", args |-> args,
                              ret |-> r.ret, out |-> r.out]
                /\ crashed' = r.fault
    /\ UNCHANGED <<engineVars, sessionVars, initialized, disk>>

\* the stretch factors of the tempo changes: 1.5, and 5.0, which timeStretch
\* refuses
TempoFactors == {3 * (FUnit \div 2), 5 * FUnit}

\* the lengths in seconds of the tempo changes; 0 is the whole file
TempoLengths == {0, 2, 4}

\* the output paths: a new file, a path whose directory is missing, and the
\* path of an input file
OutputFiles == {"out.wav", "nodir/out.wav", "tick.wav"}

\* the caller replaces a file only while it has fewer frames than this
MaxRewriteFrames == 1200

\* drwav_init_file_write succeeds and every frame is written
Writable(path) ==
    \/ path = "out.wav"
    \/ FileExists(path) /\ ~disk[path].readOnly

\* the file at the path was replaced by files of MaxRewriteFrames frames or more
Grown(path) ==
    FileExists(path) /\ ~disk[path].readOnly /\ disk[path].frames >= MaxRewriteFrames

\* size of timeStretch(samples, stretchFactor) for n samples: the input itself
\* when a guard clause returns it, else expectedLength =
\* static_cast<size_t>(input.size() * stretchFactor), a binary32 product
StretchedSize(n, stretchFactor) ==
    IF Guarded(n, stretchFactor) THEN n
    ELSE F32ToInt(F32Mul(F32FromInt(n), F32Round(stretchFactor, -24, FALSE)))

\* what a tempo change loaded and saved
TempoOut(loaded, sampleRate, saved) ==
    [loaded |-> loaded, sampleRate |-> sampleRate, saved |-> saved]

\* the files after saveAudioToFile(outputFile, stretchedSamples, sampleRate)
\* succeeded, for stretchedSamples = timeStretch(samples, stretchFactor) and
\* samples loaded from the file t
Saved(outputFile, t, out, stretchFactor) ==
    IF ~FileExists(outputFile) THEN disk
    ELSE [disk EXCEPT ![outputFile] =
            [rate |-> out.sampleRate, frames |-> out.saved,
             click |-> StretchedSize(t.click, stretchFactor), readOnly |-> FALSE]]

\* ChangeTempoWithFFT from the load of g_originalFilePath on, for the path and
\* the length that the session holds at that point
TempoBody(path, originalLength, outputFile, stretchFactor) ==
    LET samples == LoadAudioAtOriginalRate(File(path), originalLength)
        stretched == StretchedSize(samples.n, stretchFactor)
    IN IF samples.err # "none" \/ samples.n = 0
       THEN [ret |-> FALSE, out |-> TempoOut(0, Unwritten, Unwritten)]
       ELSE IF stretched = 0 \/ ~Writable(outputFile)
       THEN [ret |-> FALSE, out |-> TempoOut(samples.n, samples.rate, Unwritten)]
       ELSE [ret |-> TRUE, out |-> TempoOut(samples.n, samples.rate, stretched)]

\* ChangeTempoWithFFT(inputFile, outputFile, stretchFactor, length)
ChangeTempoWithFFT ==
    /\ ~crashed
    /\ \E inputFile \in FileNames \cup {Null},
          outputFile \in {path \in OutputFiles \cup {Null} : ~Grown(path)},
          stretchFactor \in TempoFactors, length \in TempoLengths :
         LET args == [inputFile |-> inputFile, outputFile |-> outputFile,
                      stretchFactor |-> stretchFactor, length |-> length]
             refused == [op |-> "ChangeTempoWithFFT", args |-> args, ret |-> FALSE,
                         out |-> TempoOut(0, Unwritten, Unwritten)]
             isNewFile == g_originalFilePath = "" \/ inputFile # g_originalFilePath
         IN IF inputFile = Null \/ outputFile = Null \/ ~g_loadAudio \/ ~g_fftProcessor
            THEN /\ brCall' = refused
                 /\ UNCHANGED <<sessionVars, crashed, disk>>
            ELSE \E r \in IF isNewFile /\ g_bpmDetector
                           THEN AnalyzeFileBPMOutcomes(inputFile)
                           ELSE {[ret |-> 0, setBeats |-> FALSE, beats |-> Empty,
                                  setBPM |-> FALSE, fault |-> FALSE]} :
                   LET path == IF isNewFile THEN inputFile ELSE g_originalFilePath
                       originalLength == IF isNewFile THEN length ELSE g_originalLength
                       body == TempoBody(path, originalLength, outputFile, stretchFactor)
                   IN /\ g_originalLength' = originalLength
                      /\ g_cumulativeStretchFactor' =
                            IF isNewFile THEN FUnit ELSE g_cumulativeStretchFactor
                      /\ g_lastDetectedBeats' =
                            IF r.setBeats THEN r.beats ELSE g_lastDetectedBeats
                      /\ g_lastBPM' = IF r.setBPM THEN r.ret ELSE g_lastBPM
                      /\ g_originalBPM' =
                            IF isNewFile /\ g_bpmDetector THEN r.ret ELSE g_originalBPM
                      /\ g_currentBPM' =
                            IF isNewFile /\ g_bpmDetector THEN r.ret ELSE g_currentBPM
                      /\ crashed' = r.fault
                      /\ IF r.fault
                         THEN /\ g_originalFilePath' = path
                              /\ brCall' = refused
                              /\ UNCHANGED disk
                         ELSE IF ~FileExists(path)
                         THEN /\ g_originalFilePath' = ""
                              /\ brCall' = refused
                              /\ UNCHANGED disk
                         ELSE /\ g_originalFilePath' = path
                              /\ brCall' = [op |-> "ChangeTempoWithFFT", args |-> args,
                                            ret |-> body.ret, out |-> body.out]
                              /\ disk' = IF body.ret
                                         THEN Saved(outputFile, File(path), body.out,
                                                    stretchFactor)
                                         ELSE disk
    /\ UNCHANGED <<engineVars, initialized>>

(***************************************************************************)
(* Display normalisation: ProcessSpectrogram (AudioAnalyzerBridge.cpp)     *)
(*                                                                         *)
(* A float is a fraction [n, d] with d >= 0 and no common factor: d > 0 is *)
(* the finite number n / d, and 1/0, -1/0 and 0/0 are +infinity,           *)
(* -infinity and NaN, with the IEEE rules for them (inf - inf and          *)
(* inf / inf are NaN, every ordered comparison with a NaN is false).       *)
(* Finite arithmetic is exact: the binary32 rounding of sums and quotients *)
(* is not modelled.  Logarithms and ranges are counted in units of         *)
(* 1 / LogUnit, dynamicRangeDb in units of 10 / LogUnit dB.                *)
(***************************************************************************)
\* units per 1.0 of a log10 value
LogUnit == 10 ^ 7

\* the floor 1e-6f of the range
RangeFloor == LogUnit \div 10 ^ 6

\* log10(0.0f + 1e-10f), in whole log10 steps
LogOfEpsilon == -10

\* largest width and largest height of a spectrogram
MaxSide == 2

RECURSIVE GCD(_, _)
GCD(a, b) == IF b = 0 THEN a ELSE GCD(b, a % b)

\* the float n / d
X(n, d) ==
    IF d = 0 THEN [n |-> IF n > 0 THEN 1 ELSE IF n < 0 THEN -1 ELSE 0, d |-> 0]
    ELSE LET g == GCD(Abs(n), Abs(d))
             s == IF d < 0 THEN -1 ELSE 1
         IN [n |-> s * (n \div g), d |-> s * (d \div g)]

XNaN == X(0, 0)

XInf == X(1, 0)

\* a - b
XSub(a, b) == X(a.n * b.d - b.n * a.d, a.d * b.d)

\* a / b
XDiv(a, b) == X(a.n * b.d, a.d * b.n)

\* a < b
XLt(a, b) ==
    IF a = XNaN \/ b = XNaN THEN FALSE
    ELSE IF a.d = 0 /\ b.d = 0 THEN a.n < b.n
    ELSE a.n * b.d < b.n * a.d

\* (std::min)(a, b): b when b < a, else a
XMin(a, b) == IF XLt(b, a) THEN b ELSE a

\* (std::max)(a, b): b when a < b, else a
XMax(a, b) == IF XLt(a, b) THEN b ELSE a

\* std::pow(a, gamma) for a whole or NaN exponent and a base that is not
\* negative: pow(x, 0) = 1 and pow(1, y) = 1 also for a NaN
XPow(a, gamma) ==
    IF gamma = 0 THEN X(1, 1)
    ELSE IF gamma = NaN THEN (IF a = X(1, 1) THEN a ELSE XNaN)
    ELSE IF gamma > 0 THEN X(a.n ^ gamma, a.d ^ gamma)
    ELSE X(a.d ^ (-gamma), a.n ^ (-gamma))

RECURSIVE Log10OfPower(_)
\* log10 of a power of ten
Log10OfPower(x) == IF x = 1 THEN 0 ELSE 1 + Log10OfPower(x \div 10)

\* std::log10(x + 1e-10f) for x = 0, a power of ten from 1 on (x + 1e-10f is
\* x in binary32), or +infinity
LogScaled(x) ==
    IF x = Inf THEN XInf
    ELSE IF x = 0 THEN X(LogOfEpsilon * LogUnit, 1)
    ELSE X(Log10OfPower(x) * LogUnit, 1)

\* 0.01f and 0.99f
F32Hundredth == [m |-> 10737418, e |-> -30]

F32NinetyNineHundredths == [m |-> 16609444, e |-> -24]

\* static_cast<unsigned int>(totalElements * 0.01f)
P1Index(totalElements) == F32ToInt(F32Mul(F32FromInt(totalElements), F32Hundredth))

\* static_cast<unsigned int>(totalElements * 0.99f)
P99Index(totalElements) ==
    F32ToInt(F32Mul(F32FromInt(totalElements), F32NinetyNineHundredths))

\* sortedData[k] after std::sort: the value with at most k values below it and
\* more than k values not above it
SortedAt(data, k) ==
    CHOOSE v \in {data[i] : i \in DOMAIN data} :
        /\ Cardinality({i \in DOMAIN data : XLt(data[i], v)}) <= k
        /\ Cardinality({i \in DOMAIN data : ~XLt(v, data[i])}) > k

\* dynamicRangeDb / 10.0f
RangeOf(dynamicRangeDb) ==
    IF dynamicRangeDb = NaN THEN XNaN
    ELSE IF dynamicRangeDb = Inf THEN XInf
    ELSE IF dynamicRangeDb = -Inf THEN X(-1, 0)
    ELSE X(dynamicRangeDb, 1)

\* Step 5 without the upper bound: (std::max)(0.0f, v * 255.0f)
Scale255_NoUpper(v) == XMax(X(0, 1), X(v.n * 255, v.d))

\* Step 5: (std::max)(0.0f, (std::min)(255.0f, v * 255.0f))
Scale255(v) == XMax(X(0, 1), XMin(X(255, 1), X(v.n * 255, v.d)))

\* ProcessSpectrogram for non-null pointers: the value returned and the
\* processedData buffer after the call
ProcessSpectrogram(spectrogramData, width, height, dynamicRangeDb, gamma) ==
    IF width = 0 \/ height = 0
    THEN [called |-> TRUE, ret |-> FALSE, processedData |-> Buffer(Size(spectrogramData))]
    ELSE LET totalElements == width * height
             logData == [i \in 0 .. totalElements - 1 |-> LogScaled(spectrogramData[i])]
             p1 == SortedAt(logData, P1Index(totalElements))
             p99 == SortedAt(logData, P99Index(totalElements))
             rangeMin == XSub(p99, RangeOf(dynamicRangeDb))
             rangeMax == p99
             fullRange == XSub(rangeMax, rangeMin)
             range == IF XLt(fullRange, X(RangeFloor, 1)) THEN X(RangeFloor, 1)
                      ELSE fullRange
             clipped == [i \in 0 .. totalElements - 1 |->
                            XMax(rangeMin, XMin(logData[i], rangeMax))]
             normalised == [i \in 0 .. totalElements - 1 |->
                               XDiv(XSub(clipped[i], rangeMin), range)]
             corrected == [i \in 0 .. totalElements - 1 |->
                              XPow(normalised[i], gamma)]
         IN [called |-> TRUE, ret |-> TRUE,
             processedData |-> [i \in 0 .. totalElements - 1 |-> Scale255(corrected[i])]]

\* the spectrogram values: 0, 1, 1000 and +infinity
SpectrogramVals == {0, 1, 1000, Inf}

\* the spectrograms: every cell holds lo, but for one cell that holds hi
Spectrograms(width, height) ==
    IF width * height = 0 THEN {Empty}
    ELSE {[i \in 0 .. width * height - 1 |-> IF i = p THEN hi ELSE lo] :
             lo \in SpectrogramVals, hi \in SpectrogramVals,
             p \in 0 .. width * height - 1}

\* the dynamic ranges: NaN, -infinity, -60 dB, 0 dB, a range of half the floor,
\* 30 dB, 60 dB, +infinity
DynamicRanges ==
    {NaN, -Inf, -6 * LogUnit, 0, RangeFloor \div 2, 3 * LogUnit, 6 * LogUnit, Inf}

\* the gamma exponents
Gammas == {NaN, -1, 0, 1, 2}

SPNotCalled == [called |-> FALSE, ret |-> FALSE, processedData |-> Empty]

\* the caller runs ProcessSpectrogram(spData, spWidth, spHeight, processedData,
\* spRangeDb, spGamma)
CallProcessSpectrogram ==
    /\ ~spOut.called
    /\ spOut' = ProcessSpectrogram(spData, spWidth, spHeight, spRangeDb, spGamma)
    /\ UNCHANGED <<spData, spWidth, spHeight, spRangeDb, spGamma>>

(***************************************************************************)
(* Phase tracking of timeStretch under concurrent invocations              *)
(*                                                                         *)
(* Threads call timeStretch on one FFT_Processor; a step is the processing *)
(* of one frame by one invocation, so the frames of the invocations        *)
(* interleave in every order.  A frame is the spectrum of FrameSize        *)
(* samples: its bins 0 .. FrameSize / 2, each [mag, phase], with the       *)
(* magnitude counted in units of 0.005 and the phase in eighths of a turn, *)
(* and the stretch factor is a whole number.  previousPhase and            *)
(* previousMagnitude are local vectors of timeStretch: every invocation    *)
(* has its own pair, kept in pvTrack at the slot of its thread.            *)
(***************************************************************************)
Threads == {1, 2}

\* calls of timeStretch that one thread makes
MaxCalls == 2

\* eighths of a turn in 2 * pi
Turn == 8

\* N = spectrum.size()
FrameSize == 8

\* numBins = N / 2 + 1
NumBins == FrameSize \div 2 + 1

\* the bins between DC and Nyquist
InnerBins == 1 .. NumBins - 2

\* 0.01f in units of 0.005
MagThreshold == 2

\* omega * i * frameDelta * frameDelta, the expected advance of bin i
ExpectedAdvance(i) == i

\* previousPhase(windowSize / 2 + 1, 0.0f), previousMagnitude(windowSize / 2 + 1, 0.0f)
ZeroTrack ==
    [previousPhase |-> [i \in 0 .. NumBins - 1 |-> 0],
     previousMagnitude |-> [i \in 0 .. NumBins - 1 |-> 0]]

\* std::round(d / (2 * pi)): halves away from zero
RoundTurns(d) ==
    IF d >= 0 THEN (2 * d + Turn) \div (2 * Turn)
    ELSE -((2 * (-d) + Turn) \div (2 * Turn))

\* phaseDiff - 2 * pi * std::round(phaseDiff / (2 * pi))
Unwrapped(phaseDiff) == phaseDiff - Turn * RoundTurns(phaseDiff)

\* the transient scan: some bin between DC and Nyquist has a previous magnitude
\* above zero and grew by a ratio above 3.0
IsTransient(spectrum, track) ==
    \E i \in InnerBins :
        /\ track.previousMagnitude[i] > 0
        /\ spectrum[i].mag > 3 * track.previousMagnitude[i]

\* previousPhase[i] + instFreq * frameDelta * stretchFactor
VocoderPhase(i, phase, previousPhase, stretchFactor) ==
    previousPhase + (ExpectedAdvance(i) + Unwrapped(phase - previousPhase)) * stretchFactor

\* FFT_Processor::applyPhaseVocoder on the bins 0 .. N / 2 of a spectrum: the
\* modified bins, and the tracking vectors after the call
ApplyPhaseVocoder(spectrum, stretchFactor, track) ==
    LET isTransient == IsTransient(spectrum, track)
        newPhase == [i \in 0 .. NumBins - 1 |->
                        IF i \notin InnerBins THEN 0
                        ELSE IF isTransient /\ spectrum[i].mag > MagThreshold
                        THEN spectrum[i].phase
                        ELSE VocoderPhase(i, spectrum[i].phase,
                                          track.previousPhase[i], stretchFactor)]
    IN [bin |-> [i \in 0 .. NumBins - 1 |->
                    [mag |-> spectrum[i].mag, phase |-> newPhase[i]]],
        track |-> [previousPhase |-> newPhase,
                   previousMagnitude |-> [i \in 0 .. NumBins - 1 |-> spectrum[i].mag]]]

RECURSIVE FramesFrom(_, _, _, _, _)
\* the frame loop of timeStretch from frame k on, for tracking vectors track
FramesFrom(frames, stretchFactor, k, track, out) ==
    IF k > Len(frames) THEN out
    ELSE LET r == ApplyPhaseVocoder(frames[k], stretchFactor, track)
         IN FramesFrom(frames, stretchFactor, k + 1, r.track, Append(out, r.bin))

\* the frames timeStretch(x, f) produces when it runs alone
StretchedFrames(frames, stretchFactor) ==
    FramesFrom(frames, stretchFactor, 1, ZeroTrack, << >>)

\* the bins of a frame, from the sequence of their <<mag, phase>>
Frame(bins) == [i \in 0 .. NumBins - 1 |-> [mag |-> bins[i + 1][1], phase |-> bins[i + 1][2]]]

\* the spectra of the frames of the inputs: a steady tone; a tone that grows
\* fourfold in bin 1 while bin 2 stays at 0.005; silence, then a tone
VocoderInputs ==
    {<<Frame(<<<<2, 0>>, <<40, 1>>, <<40, 2>>, <<40, -1>>, <<2, 0>>>>),
       Frame(<<<<2, 0>>, <<40, 3>>, <<40, 1>>, <<40, 2>>, <<2, 4>>>>)>>,
     <<Frame(<<<<0, 0>>, <<20, 0>>, <<1, 1>>, <<0, 0>>, <<0, 0>>>>),
       Frame(<<<<0, 0>>, <<80, 3>>, <<1, 3>>, <<3, -2>>, <<4, 4>>>>),
       Frame(<<<<0, 0>>, <<80, -2>>, <<1, 0>>, <<3, 1>>, <<0, 0>>>>)>>,
     <<Frame(<<<<0, 0>>, <<0, 0>>, <<0, 0>>, <<0, 0>>, <<0, 0>>>>),
       Frame(<<<<1, 4>>, <<60, -3>>, <<0, 0>>, <<30, 1>>, <<0, 0>>>>),
       Frame(<<<<1, 4>>, <<60, 2>>, <<0, 0>>, <<30, 3>>, <<0, 0>>>>)>>}

\* the stretch factors: 2.0 and 3.0
VocoderFactors == {2, 3}

\* all invocations share one pair of tracking vectors
TrackingSlot_Shared(t) == CHOOSE s \in Threads : \A u \in Threads : s <= u

\* the tracking vectors an invocation on thread t uses: its own
TrackingSlot(t) == t

IdleThread ==
    [state |-> "idle", calls |-> 0, input |-> << >>, stretchFactor |-> 0,
     seen |-> << >>, out |-> << >>, interleaved |-> FALSE]

\* thread t enters timeStretch(input, stretchFactor): the tracking vectors are
\* created, filled with zeros
BeginTimeStretch(t) ==
    /\ pvThread[t].state # "running"
    /\ pvThread[t].calls < MaxCalls
    /\ \E input \in VocoderInputs, stretchFactor \in VocoderFactors :
         pvThread' = [pvThread EXCEPT ![t] =
                        [state |-> "running", calls |-> @.calls + 1, input |-> input,
                         stretchFactor |-> stretchFactor, seen |-> << >>,
                         out |-> << >>, interleaved |-> FALSE]]
    /\ pvTrack' = [pvTrack EXCEPT ![TrackingSlot(t)] = ZeroTrack]

\* thread t processes its next frame (seen keeps the tracking vectors that
\* applyPhaseVocoder was given); the invocations that are running on other
\* threads have been interleaved with
ProcessFrame(t) ==
    /\ pvThread[t].state = "running"
    /\ Len(pvThread[t].out) < Len(pvThread[t].input)
    /\ LET r == ApplyPhaseVocoder(pvThread[t].input[Len(pvThread[t].out) + 1],
                                  pvThread[t].stretchFactor, pvTrack[TrackingSlot(t)])
       IN /\ pvThread' =
               [u \in Threads |->
                   IF u = t
                   THEN [pvThread[u] EXCEPT
                            !.seen = Append(@, pvTrack[TrackingSlot(t)]),
                            !.out = Append(@, r.bin)]
                   ELSE IF pvThread[u].state = "running"
                   THEN [pvThread[u] EXCEPT !.interleaved = TRUE]
                   ELSE pvThread[u]]
          /\ pvTrack' = [pvTrack EXCEPT ![TrackingSlot(t)] = r.track]

\* thread t has processed every frame and returns
EndTimeStretch(t) ==
    /\ pvThread[t].state = "running"
    /\ Len(pvThread[t].out) = Len(pvThread[t].input)
    /\ pvThread' = [pvThread EXCEPT ![t].state = "done"]
    /\ UNCHANGED pvTrack

(***************************************************************************)
(* Claims about the transform engine (checked under SpecFFT)               *)
(***************************************************************************)
\* n is 1, 2, 4, 8, ...
IsPowerOfTwo(n) == \E k \in 0 .. n : 2 ^ k = n

\* C1: FFT and IFFT on a sequence whose length N > 1 is not a power of two fail
\* with invalid_argument, and leave the sequence as it was (neither truncated
\* nor transformed).
C1_NonPowerOfTwoRejected ==
    (fftOp \in {"FFT", "IFFT"} /\ Size(fftIn) > 1 /\ ~IsPowerOfTwo(Size(fftIn)))
        => (fftOut.err = "invalid_argument" /\ fftOut.x = fftIn)

\* an IFFT call on three elements was rejected
C1_Witness ==
    /\ fftOp = "IFFT"
    /\ Size(fftIn) = 3
    /\ fftIn[0] # fftIn[1]
    /\ fftOut.err = "invalid_argument"

\* C2: for a sequence x of power-of-two length (1, 2 and 4, where the twiddle
\* factors are exact), IFFT(FFT(x)) is x, element by element.
C2_RoundTrip ==
    (fftOp = "RoundTrip" /\ IsPowerOfTwo(Size(fftIn)))
        => (fftOut.err = "none" /\ fftOut.x = fftIn)

\* the round trip of a length-4 sequence with four different complex elements
C2_Witness ==
    /\ fftOp = "RoundTrip"
    /\ Size(fftIn) = 4
    /\ Cardinality({fftIn[i] : i \in DOMAIN fftIn}) = 4
    /\ fftIn[1].im # 0
    /\ fftOut.x = fftIn

(***************************************************************************)
(* Claims about the time-stretch engine (checked under SpecStretch)        *)
(***************************************************************************)
\* floor(n * f) over the reals, for f in units of 2^-24
FloorOfProduct(n, f) ==
    (n * (f \div 4096) + (n * (f % 4096)) \div 4096) \div 4096

\* a guard of the specification holds of the call's arguments, over the reals:
\* empty input, factor <= 0, |factor - 1| < 0.001, factor < 0.25, factor > 4.0
GuardOfSpec ==
    \/ Size(tsIn) = 0
    \/ tsFactor <= 0
    \/ Abs(tsFactor - FUnit) <= FUnit \div 1000
    \/ 4 * tsFactor < FUnit
    \/ tsFactor > 4 * FUnit

\* C3: whenever a guard holds, timeStretch returns a buffer equal to its input,
\* sample for sample, and analyses no frame.
C3_GuardedPassthrough ==
    (tsOut.called /\ GuardOfSpec)
        => (tsOut.out = tsIn /\ ~tsOut.processed /\ tsOut.frames = 0)

\* a three-sample ramp came back unchanged for the first factor above 4.0
C3_Witness ==
    /\ tsOut.called
    /\ tsFactor = 4 * FUnit + 8
    /\ Size(tsIn) = 3
    /\ tsIn[0] # tsIn[1]
    /\ tsOut.out = tsIn
    /\ tsOut.frames = 0

\* C4: for a non-empty input and a factor f in [0.25, 4.0] with |f - 1| >= 0.001
\* the returned buffer has exactly floor(length(x) * f) samples.
C4_LengthIsExactFloor ==
    (tsOut.called /\ ~GuardOfSpec)
        => Size(tsOut.out) = FloorOfProduct(Size(tsIn), tsFactor)

\* C5: whenever timeStretch processes its input, every returned sample lies in
\* [-0.95, 0.95].
C5_OutputClipped ==
    tsOut.processed
        => \A i \in DOMAIN tsOut.out :
               tsOut.out[i] # NaN /\ -95 <= tsOut.out[i] /\ tsOut.out[i] <= 95

\* an input of amplitude 2.0 was stretched; values above 0.95, below -0.95 and a
\* NaN reached the clipping loop and came out as 0.95, -0.95 and 0.95
C5_Witness ==
    /\ tsOut.processed
    /\ tsIn[0] = -200
    /\ \E i, j, k \in DOMAIN tsOut.out :
           /\ PreClip(tsDsp, i) = 300 /\ tsOut.out[i] = 95
           /\ PreClip(tsDsp, j) = -96 /\ tsOut.out[j] = -95
           /\ PreClip(tsDsp, k) = NaN /\ tsOut.out[k] = 95

\* C23: whenever timeStretch processes its input, the analysis hop is 1024 and
\* the synthesis hop is round(1024 * factor), the integer nearest to the product.
C23_SynthesisHopRounded ==
    tsOut.processed
        => (AnalysisHop = 1024 /\ tsOut.hop = (tsFactor + 2 ^ 13) \div 2 ^ 14)

\* C24: whenever timeStretch processes its input, every analysed frame (one per
\* analysis position k * 1024 for which a full window fits in the padded input)
\* is overlap-added into the output and the energy buffer: none is left out.
C24_EveryFrameOverlapAdded ==
    tsOut.processed
        => /\ tsOut.frames = (Size(tsIn) + WindowSize) \div AnalysisHop + 1
           /\ tsOut.written = 0 .. tsOut.frames - 1

\* C29: whenever timeStretch processes its input, every frame that is written
\* satisfies synthesisPosition + 4096 <= floor(length(x) * factor) + 4096, every
\* read of the padded input stays inside its length(x) + 8192 samples, and the
\* frame loop ends after floor((length(x) + 4096) / 1024) + 1 frames.
C29_OverlapAddInBounds ==
    tsOut.processed
        => /\ \A k \in tsOut.written :
                  k * tsOut.hop + WindowSize
                      <= FloorOfProduct(Size(tsIn), tsFactor) + WindowSize
           /\ \A k \in 0 .. tsOut.frames - 1 :
                  k * AnalysisHop + WindowSize <= Size(tsIn) + 2 * WindowSize
           /\ tsOut.frames = (Size(tsIn) + WindowSize) \div AnalysisHop + 1

(***************************************************************************)
(* Claims about the tempo estimator (checked under SpecTempo)              *)
(***************************************************************************)
\* the interval between beats i-1 and i lies outside [0.2 s, 2.0 s], over the reals
IntervalOutside(i) ==
    LET d == etBeats[i] - etBeats[i - 1]
    IN 5 * d * etHop < etRate \/ d * etHop > 2 * etRate

\* C6: estimateTempo returns 0 for fewer than 4 beat indices, and returns 0 when
\* every interval between consecutive beats lies outside [0.2 s, 2.0 s].
C6_ZeroOnInsufficientData ==
    (etOut.called /\ (Size(etBeats) < 4
                        \/ \A i \in 1 .. Size(etBeats) - 1 : IntervalOutside(i)))
        => etOut.bpm = 0

\* five beats whose intervals are all too short or too long gave 0
C6_Witness ==
    /\ etOut.called
    /\ Size(etBeats) = 5
    /\ \A i \in 1 .. 4 : IntervalOutside(i)
    /\ \E i, j \in 1 .. 4 : etBeats[i] - etBeats[i - 1] = 5 /\ etBeats[j] - etBeats[j - 1] = 90
    /\ etOut.bpm = 0

\* C7: the value estimateTempo returns is 0 or an integer in [60, 180]; when a
\* bucket wins, it lies in the voting band [50, 220] BPM (keys 100 .. 440), also
\* after the neighbour-averaging refinement.
C7_TempoRange ==
    etOut.called =>
        /\ etOut.bpm = 0 \/ (60 <= etOut.bpm /\ etOut.bpm <= 180)
        /\ etOut.histogram # Empty =>
               /\ 100 <= etOut.winner /\ etOut.winner <= 440
               /\ 100 <= etOut.refined /\ etOut.refined <= 440
               /\ etOut.bpm # 0

\* the beat frames of a 120 BPM click track (one click every 11025 samples at
\* 22050 Hz) on the frame grid of hop 512: frame floor(k * 11025 / 512), or the
\* nearest frame, for k = 0 .. n-1
ClickTrack(n, nearest) ==
    [k \in 0 .. n - 1 |->
        IF nearest THEN (2 * k * 11025 + 512) \div (2 * 512) ELSE (k * 11025) \div 512]

\* C8: for the beat frames of a 120 BPM click track at hop 512 and sample rate
\* 22050, estimateTempo returns a value in [119, 121].
C8_ClickTrack120 ==
    (/\ etOut.called
     /\ etRate = 22050 /\ etHop = 512
     /\ Size(etBeats) >= 4
     /\ etBeats \in {ClickTrack(Size(etBeats), b) : b \in BOOLEAN})
        => (119 <= etOut.bpm /\ etOut.bpm <= 121)

\* std::round of a binary32 number a >= 0: halves away from zero
F32RoundToInt(a) ==
    IF a.e >= 0 THEN a.m * 2 ^ a.e
    ELSE IF a.e <= -25 THEN 0
    ELSE LET unit == 2 ^ (-a.e)
         IN a.m \div unit + (IF 2 * (a.m % unit) >= unit THEN 1 ELSE 0)

\* the BPM values of the votes of the call that lie in the voting band
VotesInBand ==
    LET intervals == Intervals(etBeats, etRate, etHop)
        votes == {Tempos(intervals[i])[j].bpm : i \in 1 .. Len(intervals), j \in 1 .. 5}
    IN {bpm \in votes : VoteInBand(bpm)}

\* C21: every vote of an interval whose BPM lies in [50, 220] is counted in the
\* histogram bucket whose key is round(bpm * 2), the nearest half-BPM bucket.
C21_VoteInNearestBucket ==
    (etOut.called /\ Size(etBeats) >= 4)
        => \A bpm \in VotesInBand :
               F32RoundToInt(F32Mul(bpm, F32Two)) \in DOMAIN etOut.histogram

\* bucket k holds more than 0.92f * maxScore of the histogram of the call
StrongBucket(k) ==
    /\ k \in DOMAIN etOut.histogram
    /\ F32Lt(F32Mul(F32Threshold, MaxScore(etOut.histogram)), etOut.histogram[k])

\* C22: when no bucket at offset -3 .. -1 from the winner exceeds 0.92 * max and
\* a bucket at offset +1, +2 or +3 does, the winner is replaced by the
\* weight-weighted average of its key and the key of the first such bucket.
C22_PositiveNeighbourAveraged ==
    (/\ etOut.called
     /\ DOMAIN etOut.histogram # {}
     /\ \A o \in -3 .. -1 : ~StrongBucket(etOut.winner + o)
     /\ \E o \in 1 .. 3 : StrongBucket(etOut.winner + o))
        => LET first == CHOOSE o \in 1 .. 3 :
                            /\ StrongBucket(etOut.winner + o)
                            /\ \A p \in 1 .. o - 1 : ~StrongBucket(etOut.winner + p)
           IN etOut.refined =
                  WeightedAverage(etOut.winner, MaxScore(etOut.histogram),
                                  etOut.winner + first,
                                  etOut.histogram[etOut.winner + first])

\* C28: estimateTempo returns the same BPM for its arguments whatever order the
\* histogram buckets are visited in: every bucket of maximal accumulated weight
\* that the search loop can end on leads to the BPM that was returned.
C28_SameBPMForEveryWinner ==
    etOut.called
        => \A pick \in Winners(etOut.histogram) :
               FoldAndRound(Refine(etOut.histogram, pick, MaxScore(etOut.histogram), -3))
                   = etOut.bpm

(***************************************************************************)
(* Claims about the onset detector (checked under SpecOnsets)              *)
(***************************************************************************)
\* m is a median of the eleven values around frame i: at most five of them are
\* smaller and at most five are greater
IsMedianAt(m, i) ==
    LET w == MedianWindow(doOut.onsetStrength, i) IN
    /\ Cardinality({j \in DOMAIN w : w[j] < m}) <= MedianSize \div 2
    /\ Cardinality({j \in DOMAIN w : w[j] > m}) <= MedianSize \div 2

\* C9: every value of the envelope detectOnsets returns is >= 0 (and no NaN);
\* where the eleven values around a frame are numbers, the value is the combined
\* strength minus their median, or 0 when that is negative.
C9_EnvelopeNonNegative ==
    (doOut.called /\ doOut.err = "none") =>
        /\ Size(doOut.envelope) = NumFrames(doLen)
        /\ \A i \in DOMAIN doOut.envelope :
               /\ doOut.envelope[i] # NaN
               /\ doOut.envelope[i] >= 0
               /\ (\A j \in 0 .. MedianSize - 1 :
                       MedianWindow(doOut.onsetStrength, i)[j] # NaN)
                      => \E m \in 0 .. StrengthUnit :
                             /\ IsMedianAt(m, i)
                             /\ doOut.envelope[i] =
                                    (IF doOut.onsetStrength[i] > m
                                     THEN doOut.onsetStrength[i] - m ELSE 0)

\* an envelope of at least twelve frames with a frame above its local median
\* (kept), a frame below it (clamped to 0) and a NaN strength (0)
C9_Witness ==
    /\ doOut.called /\ doOut.err = "none"
    /\ Size(doOut.envelope) >= MedianSize + 1
    /\ \E i, j, k \in DOMAIN doOut.envelope :
           /\ doOut.envelope[i] > 0
           /\ j >= MedianSize \div 2 /\ j + MedianSize \div 2 < Size(doOut.envelope)
           /\ doOut.onsetStrength[j] # NaN /\ doOut.onsetStrength[j] > 0
           /\ \A m \in 0 .. StrengthUnit : IsMedianAt(m, j) => doOut.onsetStrength[j] < m
           /\ doOut.envelope[j] = 0
           /\ doOut.onsetStrength[k] = NaN /\ doOut.envelope[k] = 0

\* C20: for every input of N samples the envelope detectOnsets returns has
\* max(0, floor((N - 1024) / 512) + 1) frames, also for N < 1024, where it is
\* empty.
C20_FrameCount ==
    doOut.called =>
        /\ doOut.err = "none"
        /\ Size(doOut.envelope) =
               (IF doLen < 1024 THEN 0 ELSE (doLen - 1024) \div 512 + 1)

(***************************************************************************)
(* Claims about the peak picker (checked under SpecBeats)                  *)
(***************************************************************************)
RECURSIVE SumRange(_, _, _, _)
\* the sum of f[j] ^ power for j in lo .. hi
SumRange(f, lo, hi, power) ==
    IF lo > hi THEN 0 ELSE f[lo] ^ power + SumRange(f, lo + 1, hi, power)

\* C10: the list findBeats returns is strictly ascending: each index is greater
\* than the one before it, so no index appears twice.
C10_PeaksStrictlyAscending ==
    (fbOut.called /\ fbOut.err = "none") =>
        \A k \in 1 .. Len(fbOut.peaks) - 1 : fbOut.peaks[k] < fbOut.peaks[k + 1]

\* several peaks came back, among them two neighbouring frames of equal height
C10_Witness ==
    /\ fbOut.called /\ fbOut.err = "none"
    /\ Len(fbOut.peaks) >= 2
    /\ fbOut.peaks[2] = fbOut.peaks[1] + 1
    /\ fbEnv[fbOut.peaks[1]] = 4 /\ fbEnv[fbOut.peaks[2]] = 4

\* C18: every index findBeats returns satisfies 9 <= i < length - 9, findBeats
\* reads no envelope element outside [0, length), and an envelope shorter than
\* 19 frames (the empty one included) yields an empty beat list.
C18_PeaksInRangeNoOverrun ==
    fbOut.called =>
        /\ fbOut.err = "none"
        /\ fbOut.outOfBounds = {}
        /\ \A k \in 1 .. Len(fbOut.peaks) :
               PeakWindowSize <= fbOut.peaks[k]
               /\ fbOut.peaks[k] < Size(fbEnv) - PeakWindowSize
        /\ Size(fbEnv) < 2 * PeakWindowSize + 1 => fbOut.peaks = << >>

\* frame i exceeds mean + factor * sqrt(variance) of the frames
\* [max(0, i-15), min(length, i+15)), over the reals: with c frames of sum S and
\* sum of squares Q, c*x - S > factor * sqrt(c*Q - S*S), decided on the squares
ExceedsThreshold(i) ==
    LET first == IF i > 15 THEN i - 15 ELSE 0
        last == (IF i + 15 < Size(fbEnv) THEN i + 15 ELSE Size(fbEnv)) - 1
        c == last - first + 1
        S == SumRange(fbEnv, first, last, 1)
        Q == SumRange(fbEnv, first, last, 2)
        a == c * fbEnv[i] - S
        v == c * Q - S * S
        lhs == FactorUnit * FactorUnit * a * a
        rhs == fbFactor * fbFactor * v
    IN IF v = 0 \/ fbFactor = 0 THEN a > 0
       ELSE IF fbFactor > 0 THEN a > 0 /\ lhs > rhs
       ELSE a >= 0 \/ lhs < rhs

\* no frame within 9 frames of i holds a greater value
NoGreaterNeighbour(i) ==
    \A j \in DOMAIN fbEnv : (j # i /\ i - 9 <= j /\ j <= i + 9) => ~(fbEnv[j] > fbEnv[i])

\* C19: for an envelope of numbers of length >= 19, findBeats returns exactly
\* the frames i in [9, length-9) that exceed their threshold and have no
\* greater neighbour within 9 frames.
C19_ExactlyQualifyingFrames ==
    (/\ fbOut.called
     /\ Size(fbEnv) >= 19
     /\ \A j \in DOMAIN fbEnv : fbEnv[j] # NaN)
        => /\ fbOut.err = "none"
           /\ {fbOut.peaks[k] : k \in 1 .. Len(fbOut.peaks)} =
                  {i \in 9 .. Size(fbEnv) - 10 : ExceedsThreshold(i) /\ NoGreaterNeighbour(i)}

(***************************************************************************)
(* Claims about the exported interface (checked under SpecBridge)          *)
(***************************************************************************)
\* C11: a request for a Hann window of size 1 is rejected as an error: the
\* call returns false instead of a window computed with the divisor size - 1 = 0.
C11_SizeOneRejected ==
    (brCall.op = "GetHanningWindow" /\ brCall.args.size = 1) => ~brCall.ret

\* C12: PerformFFTWithMagnitudes with valid pointers and a length that is not a
\* power of two returns false and leaves every cell of the magnitudes buffer
\* unwritten; on an initialized bridge with a power-of-two length it returns
\* true and has written exactly the cells 0 .. length / 2.
C12_MagnitudesWritten ==
    (/\ brCall.op = "PerformFFTWithMagnitudes"
     /\ brCall.args.audioData # Null
     /\ brCall.args.magnitudes # Null)
    => LET length == brCall.args.length
           written == {i \in DOMAIN brCall.out : brCall.out[i] # Unwritten}
       IN /\ ~IsPowerOfTwo(length) => (~brCall.ret /\ written = {})
          /\ (IsPowerOfTwo(length) /\ g_fftProcessor)
                => (brCall.ret /\ written = 0 .. length \div 2)

\* a four-sample buffer was transformed into three magnitudes and the rest of
\* the magnitudes buffer was left alone
C12_Witness ==
    /\ brCall.op = "PerformFFTWithMagnitudes"
    /\ brCall.ret
    /\ brCall.args.length = ExactLen
    /\ brCall.out[1] > 0
    /\ brCall.out[ExactLen \div 2 + 1] = Unwritten

\* C14: when AnalyzeFullTrackBeats loads the track and the track holds nothing
\* for the beat picker to find (no click), the call returns true with
\* numBeats = 0, beatPositions = nullptr and the sample rate of the track.
C14_NoBeatIsSuccess ==
    (/\ brCall.op = "AnalyzeFullTrackBeats"
     /\ g_bpmDetector /\ g_loadAudio
     /\ brCall.args.pointers # Null
     /\ LoadAudioAtOriginalRate(File(brCall.args.filename), 0).err = "none"
     /\ LoadAudioAtOriginalRate(File(brCall.args.filename), 0).click = 0)
    => /\ ~crashed
       /\ brCall.ret
       /\ brCall.out =
            BeatsOut(0, PositionsNull, LoadAudioAtOriginalRate(File(brCall.args.filename), 0).rate)

\* the exported functions that need an engine
NeedsEngine ==
    {"LoadAudioFull", "AnalyzeFullTrackBeats", "ChangeTempoWithFFT",
     "GetHanningWindow", "PerformFFTWithMagnitudes"}

\* C16: while InitializeAudioAnalyzerBridge has not run since the start or since
\* the last CleanupAudioAnalyzer, AnalyzeFileBPM returns 0, the five other
\* functions that need an engine return false, and none of these calls changes
\* the original path, the original length, the last beats or the last BPM.
C16_UninitializedRefuses ==
    [][(~initialized /\ brCall'.op \in NeedsEngine \cup {"AnalyzeFileBPM"})
        => /\ brCall'.op = "AnalyzeFileBPM" => brCall'.ret = 0
           /\ brCall'.op \in NeedsEngine => brCall'.ret = FALSE
           /\ UNCHANGED <<g_originalFilePath, g_originalLength,
                          g_lastDetectedBeats, g_lastBPM>>]_vars

\* a tempo change of an existing track to a writable file was refused because
\* the bridge is not initialized
C16_Witness ==
    /\ ~initialized
    /\ brCall.op = "ChangeTempoWithFFT"
    /\ brCall.args.inputFile = "song.wav"
    /\ brCall.args.outputFile = "out.wav"
    /\ ~brCall.ret
    /\ g_originalFilePath = ""

\* C17: a successful ChangeTempoWithFFT(inputFile, outputFile, stretchFactor,
\* length) has loaded the first length seconds of inputFile (the whole file for
\* length 0), whatever the calls before it were.
C17_LengthOfThisCall ==
    (brCall.op = "ChangeTempoWithFFT" /\ brCall.ret)
    => brCall.out.loaded = DecodeToMono(File(brCall.args.inputFile), brCall.args.length).n

\* the loader or the onset and beat routines failed on the file t, loaded by load
DspFailed(samples) == samples.err # "none" \/ BeatPicking(samples).err # "none"

\* C30: a failure inside the loader or the DSP routines never escapes an exported
\* function: the call returns, AnalyzeFileBPM with 0, and LoadAudioFull,
\* AnalyzeFullTrackBeats and ChangeTempoWithFFT with false, AnalyzeFullTrackBeats
\* having set numBeats to 0 and beatPositions to null.
C30_FailuresNeverEscape ==
    /\ (brCall.op = "AnalyzeFileBPM"
          /\ DspFailed(LoadAudio(File(brCall.args.filename), PreviewSeconds)))
        => (~crashed /\ brCall.ret = 0)
    /\ (brCall.op = "LoadAudioFull"
          /\ LoadAudioAtOriginalRate(File(brCall.args.filename), 0).err # "none")
        => (~crashed /\ brCall.ret = FALSE)
    /\ (brCall.op = "AnalyzeFullTrackBeats" /\ brCall.args.pointers # Null
          /\ g_bpmDetector /\ g_loadAudio
          /\ DspFailed(LoadAudioAtOriginalRate(File(brCall.args.filename), 0)))
        => /\ ~crashed
           /\ brCall.ret = FALSE
           /\ brCall.out.numBeats = 0
           /\ brCall.out.beatPositions = PositionsNull
    /\ (brCall.op = "ChangeTempoWithFFT" /\ brCall.args.inputFile # Null
          /\ DspFailed(LoadAudio(File(brCall.args.inputFile), PreviewSeconds)))
        => (~crashed
            /\ (LoadAudioAtOriginalRate(File(brCall.args.inputFile),
                                        g_originalLength).err # "none"
                   => brCall.ret = FALSE))

(***************************************************************************)
(* Claims about saving over an input file (checked under SpecOverwrite)    *)
(***************************************************************************)
\* the file that the path named when the session began
OriginalFile(path) == IF path \in DOMAIN Tracks THEN Tracks[path] ELSE NoFile

\* what a tempo change loads from the file t and saves
StretchOf(t, length, stretchFactor) ==
    LET samples == LoadAudioAtOriginalRate(t, length)
    IN [loaded |-> samples.n, saved |-> StretchedSize(samples.n, stretchFactor)]

\* C26: after any sequence of successful ChangeTempoWithFFT calls on one input
\* path, what a call loads and writes is determined by the original input file,
\* the stored length and the stretch factor of that call, never by the stretch
\* factors of earlier calls.
C26_ResultFromOriginalFile ==
    (brCall.op = "ChangeTempoWithFFT" /\ brCall.ret)
        => LET r == StretchOf(OriginalFile(g_originalFilePath), g_originalLength,
                              brCall.args.stretchFactor)
           IN brCall.out.loaded = r.loaded /\ brCall.out.saved = r.saved

\* C27: CleanupAudioAnalyzer leaves the bridge as it was before any call: the
\* three engines released, no last beats, last, original and current BPM 0, no
\* original path, original length 0, cumulative stretch factor 1.0; and whenever
\* no original path is stored, as after CleanupAudioAnalyzer, a
\* ChangeTempoWithFFT call that reaches the load stores the path, the length and
\* the BPM of its input file again.
C27_CleanupRestoresInitialState ==
    /\ [](brCall.op = "CleanupAudioAnalyzer"
            => /\ ~g_bpmDetector /\ ~g_loadAudio /\ ~g_fftProcessor
               /\ g_lastDetectedBeats = Empty
               /\ g_lastBPM = 0 /\ g_originalBPM = 0 /\ g_currentBPM = 0
               /\ g_originalFilePath = "" /\ g_originalLength = 0
               /\ g_cumulativeStretchFactor = FUnit)
    /\ [][(/\ g_originalFilePath = ""
           /\ brCall'.op = "ChangeTempoWithFFT"
           /\ brCall'.args.inputFile # Null /\ brCall'.args.outputFile # Null
           /\ g_loadAudio /\ g_fftProcessor /\ ~crashed')
            => /\ g_originalLength' = brCall'.args.length
               /\ g_cumulativeStretchFactor' = FUnit
               /\ g_bpmDetector => (g_originalBPM' = g_lastBPM' \/ g_originalBPM' = 0)
               /\ g_currentBPM' = g_originalBPM'
               /\ g_originalFilePath' =
                     IF FileExists(brCall'.args.inputFile)
                     THEN brCall'.args.inputFile ELSE ""]_vars

\* CleanupAudioAnalyzer was called after a tempo change had stored a path and
\* saved 750 frames over "tick.wav", and no path is stored any more
C27_Witness ==
    /\ brCall.op = "CleanupAudioAnalyzer"
    /\ disk["tick.wav"].frames = 750
    /\ g_originalFilePath = ""
    /\ g_originalLength = 0
    /\ ~g_loadAudio

(***************************************************************************)
(* Claims about the display normalisation (checked under SpecSpectrogram)  *)
(***************************************************************************)
\* the float c is a number from 0 to 255
InDisplayRange(c) == c.d > 0 /\ 0 <= c.n /\ c.n <= 255 * c.d

\* C13: for width > 0, height > 0 and non-negative input, every value that
\* ProcessSpectrogram leaves in processedData is a number in [0, 255], for
\* every dynamicRangeDb and gamma, also when the range is below the 1e-6 floor.
C13_DisplayRange ==
    (spOut.called /\ spWidth > 0 /\ spHeight > 0)
    => /\ spOut.ret
       /\ DOMAIN spOut.processedData = 0 .. spWidth * spHeight - 1
       /\ \A i \in DOMAIN spOut.processedData : InDisplayRange(spOut.processedData[i])

\* a range of half the floor and gamma = 2 were given: the brightest cell came
\* out as (1/2)^2 * 255 and another cell as 0
C13_Witness ==
    /\ spOut.called /\ spOut.ret
    /\ spRangeDb = RangeFloor \div 2
    /\ spGamma = 2
    /\ \E i \in DOMAIN spOut.processedData : spOut.processedData[i] = X(255, 4)
    /\ \E i \in DOMAIN spOut.processedData : spOut.processedData[i] = X(0, 1)

(***************************************************************************)
(* Claims about concurrent time stretching (checked under SpecVocoder)     *)
(***************************************************************************)
\* C15: the phase and magnitude tracking state belongs to one invocation: what
\* a finished timeStretch(x, f) produced is what it produces when it runs alone
\* from all-zero previous phase and magnitude, whatever calls were made before
\* it and whatever invocations on other threads were interleaved with it.
C15_InvocationOwnsTracking ==
    \A t \in Threads :
        pvThread[t].state = "done"
        => pvThread[t].out = StretchedFrames(pvThread[t].input, pvThread[t].stretchFactor)

\* a thread finished its second call, whose frames were interleaved with the
\* frames of an invocation on another thread, and the tracking state mattered:
\* the last frame did not keep its phase
C15_Witness ==
    \E t \in Threads :
        /\ pvThread[t].state = "done"
        /\ pvThread[t].calls = MaxCalls
        /\ pvThread[t].interleaved
        /\ pvThread[t].out[Len(pvThread[t].out)][1].phase
             # pvThread[t].input[Len(pvThread[t].input)][1].phase
        /\ \E u \in Threads \ {t} : pvThread[u].out # << >>

\* C25: in every frame a timeStretch invocation has processed, DC and Nyquist
\* got phase 0; when the frame was transient, every bin between DC and Nyquist
\* kept its analysis phase, whatever its magnitude; when it was not, every such
\* bin got previousPhase + instFreq * frameDelta * factor.
C25_TransientKeepsEveryPhase ==
    \A t \in Threads : \A k \in 1 .. Len(pvThread[t].out) :
        LET spectrum == pvThread[t].input[k]
            track == pvThread[t].seen[k]
            bins == pvThread[t].out[k]
        IN /\ bins[0].phase = 0
           /\ bins[NumBins - 1].phase = 0
           /\ \A i \in InnerBins :
                  bins[i].phase =
                      IF IsTransient(spectrum, track) THEN spectrum[i].phase
                      ELSE VocoderPhase(i, spectrum[i].phase, track.previousPhase[i],
                                        pvThread[t].stretchFactor)

(***************************************************************************)
(* Specifications                                                          *)
(***************************************************************************)
\* a sequence is given; no transform has run on it yet
InitFFT ==
    /\ fftOp = "none" /\ fftIn \in FFTInputs /\ fftOut = [err |-> "none", x |-> Empty]
    /\ tsIn = Empty /\ tsFactor = 0 /\ tsDsp = 0 /\ tsOut = TSNotCalled
    /\ etBeats = Empty /\ etRate = 0 /\ etHop = 0 /\ etPick = 0 /\ etOut = ETNotCalled
    /\ doLen = 0 /\ doFlux = <<Empty, Empty>> /\ doPick = 0 /\ doOut = DONotCalled
    /\ fbEnv = Empty /\ fbFactor = 0 /\ fbOut = FBNotCalled
    /\ g_bpmDetector = FALSE /\ g_loadAudio = FALSE /\ g_fftProcessor = FALSE
    /\ g_lastDetectedBeats = Empty /\ g_lastBPM = 0
    /\ g_originalFilePath = "" /\ g_originalLength = 0
    /\ g_originalBPM = 0 /\ g_currentBPM = 0 /\ g_cumulativeStretchFactor = FUnit
    /\ initialized = FALSE /\ crashed = FALSE /\ brCall = NoCall
    /\ disk = Tracks
    /\ spData = Empty /\ spWidth = 0 /\ spHeight = 0 /\ spRangeDb = 0 /\ spGamma = 0
    /\ spOut = SPNotCalled
    /\ pvThread = [t \in Threads |-> IdleThread] /\ pvTrack = [t \in Threads |-> ZeroTrack]

NextFFT ==
    \/ CallFFT /\ UNCHANGED <<tsVars, etVars, doVars, fbVars, brVars, spVars, pvVars>>
    \/ CallIFFT /\ UNCHANGED <<tsVars, etVars, doVars, fbVars, brVars, spVars, pvVars>>
    \/ CallRoundTrip /\ UNCHANGED <<tsVars, etVars, doVars, fbVars, brVars, spVars, pvVars>>

SpecFFT == InitFFT /\ [][NextFFT]_vars

\* an input buffer and a stretch factor are given; timeStretch has not run yet
InitStretch ==
    /\ fftOp = "none" /\ fftIn = Empty /\ fftOut = [err |-> "none", x |-> Empty]
    /\ tsIn \in StretchInputs /\ tsFactor \in StretchFactors
    /\ tsDsp \in 0 .. Len(DspVals) - 1 /\ tsOut = TSNotCalled
    /\ etBeats = Empty /\ etRate = 0 /\ etHop = 0 /\ etPick = 0 /\ etOut = ETNotCalled
    /\ doLen = 0 /\ doFlux = <<Empty, Empty>> /\ doPick = 0 /\ doOut = DONotCalled
    /\ fbEnv = Empty /\ fbFactor = 0 /\ fbOut = FBNotCalled
    /\ g_bpmDetector = FALSE /\ g_loadAudio = FALSE /\ g_fftProcessor = FALSE
    /\ g_lastDetectedBeats = Empty /\ g_lastBPM = 0
    /\ g_originalFilePath = "" /\ g_originalLength = 0
    /\ g_originalBPM = 0 /\ g_currentBPM = 0 /\ g_cumulativeStretchFactor = FUnit
    /\ initialized = FALSE /\ crashed = FALSE /\ brCall = NoCall
    /\ disk = Tracks
    /\ spData = Empty /\ spWidth = 0 /\ spHeight = 0 /\ spRangeDb = 0 /\ spGamma = 0
    /\ spOut = SPNotCalled
    /\ pvThread = [t \in Threads |-> IdleThread] /\ pvTrack = [t \in Threads |-> ZeroTrack]

NextStretch == CallTimeStretch /\ UNCHANGED <<fftVars, etVars, doVars, fbVars, brVars, spVars, pvVars>>

SpecStretch == InitStretch /\ [][NextStretch]_vars

\* a beat list, a sample rate and a hop size are given; estimateTempo has not run yet
InitTempo ==
    /\ fftOp = "none" /\ fftIn = Empty /\ fftOut = [err |-> "none", x |-> Empty]
    /\ tsIn = Empty /\ tsFactor = 0 /\ tsDsp = 0 /\ tsOut = TSNotCalled
    /\ etBeats \in BeatLists
    /\ \E rh \in RatesAndHops : etRate = rh[1] /\ etHop = rh[2]
    /\ etPick = 0 /\ etOut = ETNotCalled
    /\ doLen = 0 /\ doFlux = <<Empty, Empty>> /\ doPick = 0 /\ doOut = DONotCalled
    /\ fbEnv = Empty /\ fbFactor = 0 /\ fbOut = FBNotCalled
    /\ g_bpmDetector = FALSE /\ g_loadAudio = FALSE /\ g_fftProcessor = FALSE
    /\ g_lastDetectedBeats = Empty /\ g_lastBPM = 0
    /\ g_originalFilePath = "" /\ g_originalLength = 0
    /\ g_originalBPM = 0 /\ g_currentBPM = 0 /\ g_cumulativeStretchFactor = FUnit
    /\ initialized = FALSE /\ crashed = FALSE /\ brCall = NoCall
    /\ disk = Tracks
    /\ spData = Empty /\ spWidth = 0 /\ spHeight = 0 /\ spRangeDb = 0 /\ spGamma = 0
    /\ spOut = SPNotCalled
    /\ pvThread = [t \in Threads |-> IdleThread] /\ pvTrack = [t \in Threads |-> ZeroTrack]

NextTempo == CallEstimateTempo /\ UNCHANGED <<fftVars, tsVars, doVars, fbVars, brVars, spVars, pvVars>>

SpecTempo == InitTempo /\ [][NextTempo]_vars

\* a buffer length and the spectral flux of its frames are given; detectOnsets
\* has not run yet
InitOnsets ==
    /\ fftOp = "none" /\ fftIn = Empty /\ fftOut = [err |-> "none", x |-> Empty]
    /\ tsIn = Empty /\ tsFactor = 0 /\ tsDsp = 0 /\ tsOut = TSNotCalled
    /\ etBeats = Empty /\ etRate = 0 /\ etHop = 0 /\ etPick = 0 /\ etOut = ETNotCalled
    /\ doLen \in OnsetLengths /\ doFlux \in FluxInputs(doLen)
    /\ doPick = 0 /\ doOut = DONotCalled
    /\ fbEnv = Empty /\ fbFactor = 0 /\ fbOut = FBNotCalled
    /\ g_bpmDetector = FALSE /\ g_loadAudio = FALSE /\ g_fftProcessor = FALSE
    /\ g_lastDetectedBeats = Empty /\ g_lastBPM = 0
    /\ g_originalFilePath = "" /\ g_originalLength = 0
    /\ g_originalBPM = 0 /\ g_currentBPM = 0 /\ g_cumulativeStretchFactor = FUnit
    /\ initialized = FALSE /\ crashed = FALSE /\ brCall = NoCall
    /\ disk = Tracks
    /\ spData = Empty /\ spWidth = 0 /\ spHeight = 0 /\ spRangeDb = 0 /\ spGamma = 0
    /\ spOut = SPNotCalled
    /\ pvThread = [t \in Threads |-> IdleThread] /\ pvTrack = [t \in Threads |-> ZeroTrack]

NextOnsets == CallDetectOnsets /\ UNCHANGED <<fftVars, tsVars, etVars, fbVars, brVars, spVars, pvVars>>

SpecOnsets == InitOnsets /\ [][NextOnsets]_vars

\* an onset envelope and a threshold factor are given; findBeats has not run yet
InitBeats ==
    /\ fftOp = "none" /\ fftIn = Empty /\ fftOut = [err |-> "none", x |-> Empty]
    /\ tsIn = Empty /\ tsFactor = 0 /\ tsDsp = 0 /\ tsOut = TSNotCalled
    /\ etBeats = Empty /\ etRate = 0 /\ etHop = 0 /\ etPick = 0 /\ etOut = ETNotCalled
    /\ doLen = 0 /\ doFlux = <<Empty, Empty>> /\ doPick = 0 /\ doOut = DONotCalled
    /\ fbEnv \in Envelopes /\ fbFactor \in ThresholdFactors
    /\ fbOut = FBNotCalled
    /\ g_bpmDetector = FALSE /\ g_loadAudio = FALSE /\ g_fftProcessor = FALSE
    /\ g_lastDetectedBeats = Empty /\ g_lastBPM = 0
    /\ g_originalFilePath = "" /\ g_originalLength = 0
    /\ g_originalBPM = 0 /\ g_currentBPM = 0 /\ g_cumulativeStretchFactor = FUnit
    /\ initialized = FALSE /\ crashed = FALSE /\ brCall = NoCall
    /\ disk = Tracks
    /\ spData = Empty /\ spWidth = 0 /\ spHeight = 0 /\ spRangeDb = 0 /\ spGamma = 0
    /\ spOut = SPNotCalled
    /\ pvThread = [t \in Threads |-> IdleThread] /\ pvTrack = [t \in Threads |-> ZeroTrack]

NextBeats == CallFindBeats /\ UNCHANGED <<fftVars, tsVars, etVars, doVars, brVars, spVars, pvVars>>

SpecBeats == InitBeats /\ [][NextBeats]_vars

\* the process has started: no engine exists and the session state is empty
InitBridge ==
    /\ fftOp = "none" /\ fftIn = Empty /\ fftOut = [err |-> "none", x |-> Empty]
    /\ tsIn = Empty /\ tsFactor = 0 /\ tsDsp = 0 /\ tsOut = TSNotCalled
    /\ etBeats = Empty /\ etRate = 0 /\ etHop = 0 /\ etPick = 0 /\ etOut = ETNotCalled
    /\ doLen = 0 /\ doFlux = <<Empty, Empty>> /\ doPick = 0 /\ doOut = DONotCalled
    /\ fbEnv = Empty /\ fbFactor = 0 /\ fbOut = FBNotCalled
    /\ g_bpmDetector = FALSE /\ g_loadAudio = FALSE /\ g_fftProcessor = FALSE
    /\ g_lastDetectedBeats = Empty /\ g_lastBPM = 0
    /\ g_originalFilePath = "" /\ g_originalLength = 0
    /\ g_originalBPM = 0 /\ g_currentBPM = 0 /\ g_cumulativeStretchFactor = FUnit
    /\ initialized = FALSE /\ crashed = FALSE /\ brCall = NoCall
    /\ disk = Tracks
    /\ spData = Empty /\ spWidth = 0 /\ spHeight = 0 /\ spRangeDb = 0 /\ spGamma = 0
    /\ spOut = SPNotCalled
    /\ pvThread = [t \in Threads |-> IdleThread] /\ pvTrack = [t \in Threads |-> ZeroTrack]

NextBridge ==
    \/ InitializeAudioAnalyzerBridge /\ UNCHANGED <<fftVars, tsVars, etVars, doVars, fbVars, spVars, pvVars>>
    \/ CleanupAudioAnalyzer /\ UNCHANGED <<fftVars, tsVars, etVars, doVars, fbVars, spVars, pvVars>>
    \/ GetHanningWindow /\ UNCHANGED <<fftVars, tsVars, etVars, doVars, fbVars, spVars, pvVars>>
    \/ PerformFFTWithMagnitudes /\ UNCHANGED <<fftVars, tsVars, etVars, doVars, fbVars, spVars, pvVars>>
    \/ LoadAudioFull /\ UNCHANGED <<fftVars, tsVars, etVars, doVars, fbVars, spVars, pvVars>>
    \/ AnalyzeFileBPM /\ UNCHANGED <<fftVars, tsVars, etVars, doVars, fbVars, spVars, pvVars>>
    \/ AnalyzeFullTrackBeats /\ UNCHANGED <<fftVars, tsVars, etVars, doVars, fbVars, spVars, pvVars>>
    \/ ChangeTempoWithFFT /\ UNCHANGED <<fftVars, tsVars, etVars, doVars, fbVars, spVars, pvVars>>

SpecBridge == InitBridge /\ [][NextBridge]_vars

\* the bridge is not initialized and no call was made; the one file on the
\* disk can be written to
InitOverwrite ==
    /\ fftOp = "none" /\ fftIn = Empty /\ fftOut = [err |-> "none", x |-> Empty]
    /\ tsIn = Empty /\ tsFactor = 0 /\ tsDsp = 0 /\ tsOut = TSNotCalled
    /\ etBeats = Empty /\ etRate = 0 /\ etHop = 0 /\ etPick = 0 /\ etOut = ETNotCalled
    /\ doLen = 0 /\ doFlux = <<Empty, Empty>> /\ doPick = 0 /\ doOut = DONotCalled
    /\ fbEnv = Empty /\ fbFactor = 0 /\ fbOut = FBNotCalled
    /\ g_bpmDetector = FALSE /\ g_loadAudio = FALSE /\ g_fftProcessor = FALSE
    /\ g_lastDetectedBeats = Empty /\ g_lastBPM = 0
    /\ g_originalFilePath = "" /\ g_originalLength = 0
    /\ g_originalBPM = 0 /\ g_currentBPM = 0 /\ g_cumulativeStretchFactor = FUnit
    /\ initialized = FALSE /\ crashed = FALSE /\ brCall = NoCall
    /\ disk = WritableDisk
    /\ spData = Empty /\ spWidth = 0 /\ spHeight = 0 /\ spRangeDb = 0 /\ spGamma = 0
    /\ spOut = SPNotCalled
    /\ pvThread = [t \in Threads |-> IdleThread] /\ pvTrack = [t \in Threads |-> ZeroTrack]

NextOverwrite ==
    \/ InitializeAudioAnalyzerBridge /\ UNCHANGED <<fftVars, tsVars, etVars, doVars, fbVars, spVars, pvVars>>
    \/ CleanupAudioAnalyzer /\ UNCHANGED <<fftVars, tsVars, etVars, doVars, fbVars, spVars, pvVars>>
    \/ ChangeTempoWithFFT /\ UNCHANGED <<fftVars, tsVars, etVars, doVars, fbVars, spVars, pvVars>>

SpecOverwrite == InitOverwrite /\ [][NextOverwrite]_vars

\* a spectrogram, its dimensions, a dynamic range and a gamma are given;
\* ProcessSpectrogram has not run yet
InitSpectrogram ==
    /\ fftOp = "none" /\ fftIn = Empty /\ fftOut = [err |-> "none", x |-> Empty]
    /\ tsIn = Empty /\ tsFactor = 0 /\ tsDsp = 0 /\ tsOut = TSNotCalled
    /\ etBeats = Empty /\ etRate = 0 /\ etHop = 0 /\ etPick = 0 /\ etOut = ETNotCalled
    /\ doLen = 0 /\ doFlux = <<Empty, Empty>> /\ doPick = 0 /\ doOut = DONotCalled
    /\ fbEnv = Empty /\ fbFactor = 0 /\ fbOut = FBNotCalled
    /\ g_bpmDetector = FALSE /\ g_loadAudio = FALSE /\ g_fftProcessor = FALSE
    /\ g_lastDetectedBeats = Empty /\ g_lastBPM = 0
    /\ g_originalFilePath = "" /\ g_originalLength = 0
    /\ g_originalBPM = 0 /\ g_currentBPM = 0 /\ g_cumulativeStretchFactor = FUnit
    /\ initialized = FALSE /\ crashed = FALSE /\ brCall = NoCall
    /\ disk = Tracks
    /\ spWidth \in 0 .. MaxSide /\ spHeight \in 1 .. MaxSide
    /\ spData \in Spectrograms(spWidth, spHeight)
    /\ spRangeDb \in DynamicRanges /\ spGamma \in Gammas
    /\ spOut = SPNotCalled
    /\ pvThread = [t \in Threads |-> IdleThread] /\ pvTrack = [t \in Threads |-> ZeroTrack]

NextSpectrogram ==
    CallProcessSpectrogram /\ UNCHANGED <<fftVars, tsVars, etVars, doVars, fbVars, brVars, pvVars>>

SpecSpectrogram == InitSpectrogram /\ [][NextSpectrogram]_vars

\* no thread has called timeStretch yet
InitVocoder ==
    /\ fftOp = "none" /\ fftIn = Empty /\ fftOut = [err |-> "none", x |-> Empty]
    /\ tsIn = Empty /\ tsFactor = 0 /\ tsDsp = 0 /\ tsOut = TSNotCalled
    /\ etBeats = Empty /\ etRate = 0 /\ etHop = 0 /\ etPick = 0 /\ etOut = ETNotCalled
    /\ doLen = 0 /\ doFlux = <<Empty, Empty>> /\ doPick = 0 /\ doOut = DONotCalled
    /\ fbEnv = Empty /\ fbFactor = 0 /\ fbOut = FBNotCalled
    /\ g_bpmDetector = FALSE /\ g_loadAudio = FALSE /\ g_fftProcessor = FALSE
    /\ g_lastDetectedBeats = Empty /\ g_lastBPM = 0
    /\ g_originalFilePath = "" /\ g_originalLength = 0
    /\ g_originalBPM = 0 /\ g_currentBPM = 0 /\ g_cumulativeStretchFactor = FUnit
    /\ initialized = FALSE /\ crashed = FALSE /\ brCall = NoCall
    /\ disk = Tracks
    /\ spData = Empty /\ spWidth = 0 /\ spHeight = 0 /\ spRangeDb = 0 /\ spGamma = 0
    /\ spOut = SPNotCalled
    /\ pvThread = [t \in Threads |-> IdleThread] /\ pvTrack = [t \in Threads |-> ZeroTrack]

NextVocoder ==
    \E t \in Threads :
        \/ BeginTimeStretch(t)
             /\ UNCHANGED <<fftVars, tsVars, etVars, doVars, fbVars, brVars, spVars>>
        \/ ProcessFrame(t)
             /\ UNCHANGED <<fftVars, tsVars, etVars, doVars, fbVars, brVars, spVars>>
        \/ EndTimeStretch(t)
             /\ UNCHANGED <<fftVars, tsVars, etVars, doVars, fbVars, brVars, spVars>>

SpecVocoder == InitVocoder /\ [][NextVocoder]_vars

====
